---- MODULE Spec2Model ----
(***************************************************************************)
(* Floating recording control surface of the desktop application           *)
(* (route /app/control).  The latest iteration is src/unnamed/part_008,    *)
(* the previous one src/unnamed/part_007.  One state machine is modelled   *)
(* per concern of the component:                                           *)
(*   SpecDrag  drag handlers, position, refs, bounds timers                *)
(*   SpecRec   recording status cache, Loading flag, transition commands   *)
(*   SpecRecAny  SpecRec with session events and poll results of other     *)
(*               types                                                     *)
(*   SpecMute  mute flags of two windows and the mute broadcast            *)
(*   SpecOverlay  overlay registration, recovery triggers, teardown        *)
(*   SpecInteract the interaction timestamp under the user's actions       *)
(*   SpecStart  state restored from localStorage at construction           *)
(*   SpecPersist  the position across a re-creation of the window          *)
(*   SpecDetect  the position checks scheduled at mount, with teardown     *)
(*   SpecErrors  external calls without a rejection handler                *)
(*   SpecFirst  the earliest iteration (routes/app.control.tsx)            *)
(* SpecOverlayLive is SpecOverlay with the progress of calls and timers.   *)
(* React state set by a handler is modelled as rendered at once; refs that *)
(* the code copies from state in a useEffect are copied by a step of their *)
(* own (SyncRefs); closures captured by a mount-only effect keep the       *)
(* values of the first render.                                             *)
(***************************************************************************)
EXTENDS Integers, Sequences, FiniteSets, TLC

VARIABLES
  iter,             \* which iteration of the component runs: "p008" or "p007"
  \* ---- drag / geometry ----
  position,         \* useState position {x, y}
  isDragging,       \* useState isDragging
  dragOffset,       \* useState dragOffset {x, y}
  isDraggingRef,    \* isDraggingRef.current
  dragOffsetRef,    \* dragOffsetRef.current
  showSettings,     \* useState showSettings
  toolbarRect,      \* toolbarRef.current.getBoundingClientRect() {width, height}
  inner,            \* window.innerWidth / window.innerHeight {w, h}
  savedPosition,    \* localStorage 'floating-control-position': <<>> or <<pos>>
  boundsTimer,      \* cancel-and-replace timer of the position effect (part_008: the shared debounce): <<>> or <<closure>>
  settingsTimer,    \* part_007: cancel-and-replace timer of the showSettings effect: <<>> or <<closure>>
  pendingTimers,    \* other setTimeout callbacks not yet fired (set of names)
  updateScheduledRef, \* part_007: updateScheduledRef.current
  mountClosure,     \* {pos, settings} captured by the mount-only effect
  overlay,          \* last rect passed to setFakeWindowBounds: <<>> or <<rect>>
  dragEnded,        \* a drag was ended by a pointer-up and none started since (history)
  \* ---- overlay registration and recovery ----
  mounted,          \* the component is mounted (toolbarRef.current is non-null)
  elapsed,          \* Date.now() - lastInteractionRef.current, in ms
  lastCmd,          \* overlay command issued last: "none", "set" or "remove"
  removePending,    \* removeFakeWindow calls of smartRecovery not yet settled
  setCalls,         \* setFakeWindowBounds calls not yet settled (counted up to MaxSetCalls)
  boundsFailed,     \* a setFakeWindowBounds call was rejected and logged (history)
  recovery,         \* branch of the last smartRecovery and ms since the last full reset (history)
  extCalls,         \* calls issued without a rejection handler and not yet settled
  uncaught,         \* call sites whose rejection no handler caught (history)
  \* ---- persisted settings ----
  storedItem,       \* localStorage 'floating-control-position' as found at start
  toggleStore,      \* localStorage items of the three settings toggles
  toggles,          \* useState autoStartRecording / showAudioLevels / alwaysOnTop
  startPosition,    \* value the position initialiser returned: <<>> or <<value>>
  \* ---- recording session ----
  recordingStatus,  \* useState recordingStatus (the cached status)
  recordingLoading, \* useState recordingLoading (Loading)
  calls,            \* transition command calls issued by this surface, in dispatch order
  listenerState,    \* status held by the listener subsystem
  sessionEvents,    \* sessionEvent payloads pushed and not yet delivered (FIFO)
  poll,             \* the getState() call issued at mount
  lastPushed,       \* status of the session event delivered last (history)
  externalCount,    \* transitions driven by another window so far
  lastClick,        \* what the last click on a recording button did (history)
  \* ---- mute flags of two windows ----
  muted,            \* per window: useState micMuted / speakerMuted
  muteCalls,        \* toggles in flight (mute-set call or emit pending), in click order
  toggleCount,      \* toggles clicked so far
  listenerMuted,    \* mute flags held by the listener subsystem
  inbox,            \* per window and event name: payloads emitted and not yet handled (FIFO)
  emitted,          \* per event name: whether a payload was emitted (history)
  muteEvents,       \* sessionEvent mute payloads pushed to a part_008 window (FIFO)
  mutePoll,         \* the getMicMuted / getSpeakerMuted calls issued at mount
  lastApplied       \* per window: the mute event it handled last (history)

dragVars == <<position, isDragging, dragOffset, isDraggingRef, dragOffsetRef,
              showSettings, toolbarRect, inner, savedPosition, boundsTimer, settingsTimer,
              pendingTimers, updateScheduledRef, mountClosure, overlay, dragEnded>>

ovVars == <<mounted, elapsed, lastCmd, removePending, setCalls, boundsFailed,
            recovery>>

setVars == <<storedItem, toggleStore, toggles, startPosition>>

recVars == <<recordingStatus, recordingLoading, calls, listenerState,
             sessionEvents, poll, lastPushed, externalCount, lastClick>>

muteVars == <<muted, muteCalls, toggleCount, listenerMuted, inbox, emitted,
              muteEvents, mutePoll, lastApplied>>

errVars == <<extCalls, uncaught>>

vars == <<iter, dragVars, ovVars, errVars, setVars, recVars, muteVars>>

----------------------------------------------------------------------------
(* Arithmetic helpers (Math.min / Math.max)                                *)
Min(a, b) == IF a <= b THEN a ELSE b

Max(a, b) == IF a >= b THEN a ELSE b

Abs(a) == IF a >= 0 THEN a ELSE -a

Pt(px, py) == [x |-> px, y |-> py]

----------------------------------------------------------------------------
(* Program constants                                                       *)
FallbackToolbarWidth == 200

FallbackToolbarHeight == 60

DefaultBoxWidth == 200

DefaultBoxHeight == 200

SavedMaxHeightMargin == 100

NearTopThreshold == 250

PopupBelowOffset == 60

PopupAboveOffset == 200

PopupWidth == 256

PopupHeight == 200

\* the same three numbers as written in SettingsPopup
RenderNearTopThreshold == 250

RenderBelowOffset == 60

RenderAboveOffset == 200

----------------------------------------------------------------------------
(* Input domains of the drag model                                         *)
Screens == {[w |-> 1920, h |-> 1080]}

ToolbarSizes == {[width |-> 200, height |-> 60], [width |-> 260, height |-> 60]}

Pointers == {Pt(-20, -20), Pt(260, 260), Pt(810, 810), Pt(5000, 5000)}

\* the three timers of the position-detection effect of part_008
DetectTimers == {"detect100", "detect200", "detect500"}

\* where inside the toolbar the pointer presses the drag handle
HandleOffsets == {Pt(10, 10)}

\* contents of localStorage 'floating-control-position' at start
StoredPositions == {<<>>, <<Pt(100, 100)>>, <<Pt(1800, 50)>>}

----------------------------------------------------------------------------
(* part_008 useState initialiser of position                               *)
InitialPosition(saved, win) ==
  IF saved # <<>>
     /\ saved[1].x >= 0 /\ saved[1].x <= win.w - DefaultBoxWidth
     /\ saved[1].y >= 0 /\ saved[1].y <= win.h - SavedMaxHeightMargin
  THEN saved[1]
  ELSE Pt((win.w - DefaultBoxWidth) \div 2, (win.h - DefaultBoxHeight) \div 2)

(* part_007 useState initialiser of position                               *)
InitialPosition007(win) ==
  Pt((win.w - DefaultBoxWidth) \div 2, (win.h - DefaultBoxHeight) \div 2)

(* toolbarRef.current?.getBoundingClientRect().width || 200                *)
toolbarWidth == IF toolbarRect.width # 0 THEN toolbarRect.width ELSE FallbackToolbarWidth

toolbarHeight == IF toolbarRect.height # 0 THEN toolbarRect.height ELSE FallbackToolbarHeight

(* SettingsPopup: the top at which the popover is rendered (left is        *)
(* position.x)                                                             *)
SettingsPopupTop(pos) ==
  IF pos.y < RenderNearTopThreshold THEN pos.y + RenderBelowOffset
                                    ELSE pos.y - RenderAboveOffset

(* mutant: the Math.min against the far edge is dropped                   *)
ClampNoUpper(limit, v) == Max(0, v)

(* Math.max(0, Math.min(limit, v))                                         *)
Clamp(limit, v) == Max(0, Min(limit, v))

clampedX(clientX) == Clamp(inner.w - toolbarWidth, clientX - dragOffsetRef.x)

clampedY(clientY) == Clamp(inner.h - toolbarHeight, clientY - dragOffsetRef.y)

(* mutant: a surface exactly at the threshold counts as near the top       *)
popupTopInclusive(pos) ==
  IF pos.y <= NearTopThreshold THEN pos.y + PopupBelowOffset ELSE pos.y - PopupAboveOffset

(* the rectangle updateOverlayBounds computes from the position and the    *)
(* showSettings flag of its closure and the measured toolbar               *)
popupTop(pos) ==
  IF pos.y < NearTopThreshold THEN pos.y + PopupBelowOffset ELSE pos.y - PopupAboveOffset

OverlayRect(pos, settings) ==
  IF settings
  THEN LET minX == Min(pos.x, pos.x)
           minY == Min(pos.y, popupTop(pos))
           maxX == Max(pos.x + toolbarRect.width, pos.x + PopupWidth)
           maxY == Max(pos.y + toolbarRect.height, popupTop(pos) + PopupHeight)
       IN [x |-> minX, y |-> minY, width |-> maxX - minX, height |-> maxY - minY]
  ELSE [x |-> pos.x, y |-> pos.y, width |-> toolbarRect.width, height |-> toolbarRect.height]

\* setFakeWindowBounds calls in flight that are told apart
MaxSetCalls == 1

(* mutant: updateOverlayBounds without the toolbarRef.current test         *)
updateOverlayBoundsNoRefTest(pos, settings) ==
  /\ overlay' = <<OverlayRect(pos, settings)>>
  /\ lastCmd' = "set"
  /\ setCalls' = Min(setCalls + 1, MaxSetCalls)

(* updateOverlayBounds of a render whose position and showSettings are pos *)
(* and settings: windowsCommands.setFakeWindowBounds("control", bounds)    *)
(* when toolbarRef.current is set, nothing otherwise                       *)
updateOverlayBounds(pos, settings) ==
  IF mounted
  THEN /\ overlay' = <<OverlayRect(pos, settings)>>
       /\ lastCmd' = "set"
       /\ setCalls' = Min(setCalls + 1, MaxSetCalls)
  ELSE UNCHANGED <<overlay, lastCmd, setCalls>>

----------------------------------------------------------------------------
(* SpecDrag: drag handlers and bounds timers                               *)

Closure(pos, settings) == [pos |-> pos, settings |-> settings]

(* mutant: debouncedUpdateBounds without the clearTimeout                   *)
debouncedNoClear(cl) == Append(boundsTimer, cl)

(* debouncedUpdateBounds of a render whose closure is cl: the timer held in *)
(* boundsUpdateTimeoutRef is cleared, a new 100 ms timer is armed; the      *)
(* value is the sequence of debounce timers pending afterwards              *)
debouncedUpdateBounds(cl) ==
  Append(IF boundsTimer # <<>> THEN <<>> ELSE boundsTimer, cl)

(* effect of a render in which position changed: part_008 re-arms the      *)
(* shared debounce and saves the position, part_007 re-arms its 50 ms timer *)
PositionEffect(newPos) ==
  /\ boundsTimer' = IF iter = "p008"
                    THEN debouncedUpdateBounds(Closure(newPos, showSettings))
                    ELSE <<Closure(newPos, showSettings)>>
  /\ savedPosition' = IF iter = "p008" THEN <<newPos>> ELSE savedPosition

Windows == {"control", "peer"}

Channels == {"mic", "speaker"}

NoEvent == [ch |-> "none", value |-> FALSE, dup |-> FALSE]

Keys == {"autoStartRecording", "showAudioLevels", "alwaysOnTop"}

(* the useState initialisers of the three settings toggles                 *)
StartToggle(key, item) ==
  IF key = "autoStartRecording" THEN item = "true" ELSE item # "false"

(* a JavaScript value read from the parsed JSON: t is its type, n the     *)
(* number it holds (a "string" holds the decimal text of n, a "text" is a  *)
(* string that is not a number, a "boolean" holds 1 for true, 0 for false) *)
Js(type, num) == [t |-> type, n |-> num]

Undefined == Js("undefined", 0)

(* localStorage.getItem('floating-control-position'): kind is "absent"    *)
(* (getItem gives null), "empty" (the empty string), "garbage" (not JSON), *)
(* "json null", "json scalar" (a JSON number, string or boolean) or        *)
(* "object" with the values of its x and y members                         *)
Item(k, vx, vy) == [kind |-> k, x |-> vx, y |-> vy]

AbsentItem == Item("absent", Undefined, Undefined)

SetIdle ==
  /\ storedItem = AbsentItem
  /\ toggleStore = [k \in Keys |-> "absent"]
  /\ toggles = [k \in Keys |-> StartToggle(k, toggleStore[k])]
  /\ startPosition = <<>>

(* no smartRecovery has run; since is -1 until a full reset is started     *)
NoRecovery == [last |-> "none", since |-> -1]

OvIdle ==
  /\ mounted = TRUE
  /\ elapsed = 0
  /\ lastCmd = "set"
  /\ removePending = 0
  /\ setCalls = 0
  /\ boundsFailed = FALSE
  /\ recovery = NoRecovery
  /\ extCalls = {}
  /\ uncaught = {}

MuteIdle ==
  /\ muted = [w \in Windows |-> [ch \in Channels |-> FALSE]]
  /\ muteCalls = <<>>
  /\ toggleCount = 0
  /\ listenerMuted = [ch \in Channels |-> FALSE]
  /\ inbox = [w \in Windows |-> [ch \in Channels |-> <<>>]]
  /\ emitted = [ch \in Channels |-> FALSE]
  /\ muteEvents = <<>>
  /\ mutePoll = [st |-> "done", value |-> listenerMuted]
  /\ lastApplied = [w \in Windows |-> NoEvent]

RecIdle ==
  /\ recordingStatus = "inactive"
  /\ recordingLoading = FALSE
  /\ calls = <<>>
  /\ listenerState = "inactive"
  /\ sessionEvents = <<>>
  /\ poll = [st |-> "done", value |-> "inactive"]
  /\ lastPushed = "none"
  /\ externalCount = 0
  /\ lastClick = "none"

InitMounted(timers) ==
  /\ iter \in {"p008", "p007"}
  /\ RecIdle
  /\ MuteIdle
  /\ inner \in Screens
  /\ toolbarRect \in ToolbarSizes
  /\ \E stored \in StoredPositions :
       /\ position = IF iter = "p008" THEN InitialPosition(stored, inner)
                                      ELSE InitialPosition007(inner)
       /\ savedPosition = IF iter = "p008" THEN <<position>> ELSE <<>>
  /\ isDragging = FALSE
  /\ dragOffset = Pt(0, 0)
  /\ isDraggingRef = FALSE
  /\ dragOffsetRef = Pt(0, 0)
  /\ showSettings = FALSE
  /\ mountClosure = Closure(position, FALSE)
  /\ boundsTimer = <<mountClosure>>
  /\ settingsTimer = IF iter = "p007" THEN <<mountClosure>> ELSE <<>>
  /\ pendingTimers = timers
  /\ updateScheduledRef = FALSE
  /\ overlay = IF iter = "p007" THEN <<OverlayRect(position, FALSE)>> ELSE <<>>
  /\ dragEnded = FALSE
  /\ mounted = TRUE
  /\ elapsed = 0
  /\ lastCmd = IF iter = "p007" THEN "set" ELSE "none"
  /\ removePending = 0
  /\ setCalls = IF iter = "p007" THEN 1 ELSE 0
  /\ boundsFailed = FALSE
  /\ recovery = NoRecovery
  /\ extCalls = {}
  /\ uncaught = {}
  /\ SetIdle

(* the component after construction, with the initial-bounds timer pending *)
InitDrag == InitMounted({"initial"})

(* onMouseDown of the drag handle                                          *)
handleMouseDown(off) ==
  LET clientX == position.x + off.x
      clientY == position.y + off.y
  IN /\ mounted
     /\ isDragging' = TRUE
     /\ dragOffset' = Pt(clientX - position.x, clientY - position.y)
     /\ dragEnded' = FALSE
     /\ UNCHANGED <<iter, errVars, ovVars, setVars, recVars, muteVars, position, isDraggingRef, dragOffsetRef, showSettings,
                    toolbarRect, inner, savedPosition, boundsTimer, settingsTimer,
                    pendingTimers, updateScheduledRef, mountClosure, overlay>>

(* the two useEffect([isDragging]) / useEffect([dragOffset]) ref copies    *)
SyncRefs ==
  /\ mounted
  /\ isDraggingRef # isDragging \/ dragOffsetRef # dragOffset
  /\ isDraggingRef' = isDragging
  /\ dragOffsetRef' = dragOffset
  /\ UNCHANGED <<iter, errVars, ovVars, setVars, recVars, muteVars, dragEnded, position, isDragging, dragOffset, showSettings,
                 toolbarRect, inner, savedPosition, boundsTimer, settingsTimer,
                 pendingTimers, updateScheduledRef, mountClosure, overlay>>

(* part_008 window "mousemove" listener; the render that follows runs the  *)
(* position effect                                                         *)
handleMouseMove(clientX, clientY) ==
  /\ iter = "p008"
  /\ mounted
  /\ IF ~isDraggingRef
     THEN UNCHANGED <<position, savedPosition, boundsTimer>>
     ELSE /\ position' = Pt(clampedX(clientX), clampedY(clientY))
          /\ PositionEffect(position')
  /\ UNCHANGED <<iter, errVars, ovVars, setVars, recVars, muteVars, dragEnded, isDragging, dragOffset, isDraggingRef,
                 dragOffsetRef, showSettings, toolbarRect, inner, settingsTimer,
                 pendingTimers, updateScheduledRef, mountClosure, overlay>>

(* part_007 window "mousemove" listener: same clamping, then the throttled *)
(* bounds update                                                           *)
handleMouseMove007(clientX, clientY) ==
  /\ iter = "p007"
  /\ mounted
  /\ IF ~isDraggingRef
     THEN UNCHANGED <<position, savedPosition, boundsTimer, pendingTimers,
                      updateScheduledRef>>
     ELSE /\ position' = Pt(clampedX(clientX), clampedY(clientY))
          /\ PositionEffect(position')
          /\ IF ~updateScheduledRef
             THEN /\ updateScheduledRef' = TRUE
                  /\ pendingTimers' = pendingTimers \cup {"throttle"}
             ELSE UNCHANGED <<updateScheduledRef, pendingTimers>>
  /\ UNCHANGED <<iter, errVars, ovVars, setVars, recVars, muteVars, dragEnded, isDragging, dragOffset, isDraggingRef,
                 dragOffsetRef, showSettings, toolbarRect, inner, settingsTimer,
                 mountClosure, overlay>>

(* window "mouseup" listener                                               *)
handleMouseUp ==
  /\ mounted
  /\ isDragging' = FALSE
  /\ dragEnded' = (dragEnded \/ isDragging)
  /\ pendingTimers' = pendingTimers \cup {"dragEnd"}
  /\ UNCHANGED <<iter, errVars, ovVars, setVars, recVars, muteVars, position, dragOffset, isDraggingRef, dragOffsetRef,
                 showSettings, toolbarRect, inner, savedPosition, boundsTimer,
                 settingsTimer, updateScheduledRef, mountClosure, overlay>>

(* Settings button: setShowSettings(!showSettings), then the showSettings  *)
(* effect re-arms its timer                                                *)
openSettings ==
  /\ mounted
  /\ showSettings' = ~showSettings
  /\ IF iter = "p008"
     THEN /\ boundsTimer' = debouncedUpdateBounds(Closure(position, showSettings'))
          /\ UNCHANGED settingsTimer
     ELSE /\ settingsTimer' = <<Closure(position, showSettings')>>
          /\ UNCHANGED boundsTimer
  /\ UNCHANGED <<iter, errVars, ovVars, setVars, recVars, muteVars, dragEnded, position, isDragging, dragOffset, isDraggingRef,
                 dragOffsetRef, toolbarRect, inner, savedPosition, pendingTimers,
                 updateScheduledRef, mountClosure, overlay>>

(* the cancel-and-replace timer of the position effect fires               *)
FireBoundsTimer ==
  /\ boundsTimer # <<>>
  /\ updateOverlayBounds(boundsTimer[1].pos, boundsTimer[1].settings)
  /\ boundsTimer' = Tail(boundsTimer)
  /\ UNCHANGED <<iter, errVars, recovery, boundsFailed, mounted, elapsed, removePending, setVars, recVars, muteVars, dragEnded,
                 position, isDragging, dragOffset, isDraggingRef,
                 dragOffsetRef, showSettings, toolbarRect, inner, savedPosition,
                 settingsTimer, pendingTimers, updateScheduledRef, mountClosure>>

(* part_007: the timer of the showSettings effect fires                    *)
FireSettingsTimer ==
  /\ settingsTimer # <<>>
  /\ updateOverlayBounds(settingsTimer[1].pos, settingsTimer[1].settings)
  /\ settingsTimer' = <<>>
  /\ UNCHANGED <<iter, errVars, recovery, boundsFailed, mounted, elapsed, removePending, setVars, recVars, muteVars, dragEnded,
                 position, isDragging, dragOffset, isDraggingRef,
                 dragOffsetRef, showSettings, toolbarRect, inner, savedPosition,
                 boundsTimer, pendingTimers, updateScheduledRef, mountClosure>>

(* a setTimeout registered inside the mount-only effect fires: it calls    *)
(* the updateOverlayBounds of the first render                             *)
FireTimer(name) ==
  /\ name \in pendingTimers
  /\ pendingTimers' = pendingTimers \ {name}
  /\ updateOverlayBounds(mountClosure.pos, mountClosure.settings)
  /\ updateScheduledRef' = IF name = "throttle" THEN FALSE ELSE updateScheduledRef
  /\ UNCHANGED <<iter, errVars, recovery, boundsFailed, mounted, elapsed, removePending, setVars, recVars, muteVars, dragEnded,
                 position, isDragging, dragOffset, isDraggingRef,
                 dragOffsetRef, showSettings, toolbarRect, inner, savedPosition,
                 boundsTimer, settingsTimer, mountClosure>>

(* the toolbar is re-rendered with another measured size (the Pause/Resume *)
(* button is shown only while recording)                                   *)
ToolbarResize ==
  /\ mounted
  /\ \E r \in ToolbarSizes : r # toolbarRect /\ toolbarRect' = r
  /\ UNCHANGED <<iter, errVars, ovVars, setVars, recVars, muteVars, dragEnded, position, isDragging, dragOffset, isDraggingRef,
                 dragOffsetRef, showSettings, inner, savedPosition, boundsTimer,
                 settingsTimer, pendingTimers, updateScheduledRef, mountClosure,
                 overlay>>

NextDrag ==
  \/ \E off \in HandleOffsets : handleMouseDown(off)
  \/ SyncRefs
  \/ \E p \in Pointers : handleMouseMove(p.x, p.y)
  \/ \E p \in Pointers : handleMouseMove007(p.x, p.y)
  \/ handleMouseUp
  \/ openSettings
  \/ FireBoundsTimer
  \/ FireSettingsTimer
  \/ \E name \in {"initial", "dragEnd", "throttle"} : FireTimer(name)
  \/ ToolbarResize

SpecDrag == InitDrag /\ [][NextDrag]_vars

----------------------------------------------------------------------------
(* Properties of the drag controller (SpecDrag)                            *)

MoveActs(p) ==
  isDraggingRef /\ (handleMouseMove(p.x, p.y) \/ handleMouseMove007(p.x, p.y))

\* C1: every position a pointer-move produces, in part_008 and in part_007,
\* keeps the toolbar on the screen: 0 <= x <= innerWidth - toolbar width and
\* 0 <= y <= innerHeight - toolbar height; a 200x60 surface at (100,100)
\* dragged to pointer (5000,5000) on 1920x1080 ends at (1720,1020).
C1_MoveClamped ==
  [][\A p \in Pointers :
       MoveActs(p) =>
         /\ 0 <= position'.x /\ position'.x <= inner.w - toolbarRect.width
         /\ 0 <= position'.y /\ position'.y <= inner.h - toolbarRect.height
         /\ (/\ position = Pt(100, 100) /\ p = Pt(5000, 5000)
             /\ toolbarRect = [width |-> 200, height |-> 60]
             /\ inner = [w |-> 1920, h |-> 1080])
              => position' = Pt(1720, 1020)]_vars

C1_Witness ==
  /\ isDraggingRef
  /\ mountClosure.pos = Pt(100, 100)
  /\ toolbarRect = [width |-> 200, height |-> 60]
  /\ inner = [w |-> 1920, h |-> 1080]
  /\ position = Pt(1720, 1020)

(* the rectangles on screen: the control surface and the open popover      *)
SurfaceRect ==
  [x |-> position.x, y |-> position.y,
   width |-> toolbarRect.width, height |-> toolbarRect.height]

PopoverRect ==
  [x |-> position.x, y |-> SettingsPopupTop(position),
   width |-> PopupWidth, height |-> PopupHeight]

Contains(outer, r) ==
  /\ outer.x <= r.x /\ r.x + r.width <= outer.x + outer.width
  /\ outer.y <= r.y /\ r.y + r.height <= outer.y + outer.height

(* a step in which a timer callback runs updateOverlayBounds               *)
TimerPublishes ==
  \/ FireBoundsTimer
  \/ FireSettingsTimer
  \/ \E name \in {"initial", "dragEnd", "throttle"} : FireTimer(name)

\* C12: with the settings popover open, every rectangle a step passes to
\* setFakeWindowBounds contains the control surface (current position,
\* measured toolbar size) and the popover (256x200 at its anchor).
C12_PopoverUnion ==
  [][(TimerPublishes /\ mounted /\ showSettings) =>
       (Contains(overlay'[1], SurfaceRect) /\ Contains(overlay'[1], PopoverRect))]_vars

\* C13: the popover anchor is y + 60 for position.y < 250 and y - 200
\* otherwise (100 gives 160, 800 gives 600, 250 gives 50), and the anchor
\* updateOverlayBounds uses is the one SettingsPopup renders at.
C13_PopoverAnchor ==
  /\ popupTop(position) = SettingsPopupTop(position)
  /\ position.y < 250 => popupTop(position) = position.y + 60
  /\ position.y >= 250 => popupTop(position) = position.y - 200
  /\ position.y = 100 => popupTop(position) = 160
  /\ position.y = 800 => popupTop(position) = 600
  /\ position.y = 250 => popupTop(position) = 50

C13_Witness ==
  /\ showSettings
  /\ position.y = 250
  /\ overlay = <<[x |-> position.x, y |-> 50, width |-> 256,
                  height |-> 200 + toolbarRect.height]>>

\* C14: after a pointer-up that ended a drag, when every pending timer has
\* fired, the rectangle passed last to setFakeWindowBounds has the x and y
\* of the position the surface rests at (stated for the popover closed,
\* where the rectangle is the one of the surface alone).
C14_RestingPositionPublished ==
  (/\ dragEnded /\ ~isDragging /\ ~showSettings
   /\ boundsTimer = <<>> /\ settingsTimer = <<>> /\ pendingTimers = {}
   /\ overlay # <<>>)
     => (overlay[1].x = position.x /\ overlay[1].y = position.y)

C26_MoveOnlyWhileDragging ==
  [][\A p \in Pointers :
       (handleMouseMove(p.x, p.y) \/ handleMouseMove007(p.x, p.y)) =>
          /\ position' # position => isDragging
          /\ isDragging => position' = Pt(clampedX(p.x), clampedY(p.y))]_vars

\* C18: in every reachable state the bounding box of the surface (position,
\* measured toolbar size) lies within the screen.
C18_SurfaceOnScreen ==
  /\ 0 <= position.x /\ position.x + toolbarRect.width <= inner.w
  /\ 0 <= position.y /\ position.y + toolbarRect.height <= inner.h

----------------------------------------------------------------------------
(* SpecOverlay: overlay registration of part_008 under the recovery        *)
(* triggers, the timers and the teardown of the component                  *)

MaxTicks == 3

MaxResets == 1

RecoveryThreshold == 10000

\* window sizes a resize can lead to
ResizedScreens == Screens \cup {[w |-> 1280, h |-> 720]}

InitOverlay == InitDrag /\ iter = "p008"

(* 5 s pass without an interaction; the timers of the component (at most   *)
(* 500 ms) have fired by then                                              *)
Tick ==
  /\ elapsed < MaxTicks * 5000
  /\ boundsTimer = <<>> /\ settingsTimer = <<>> /\ pendingTimers = {}
  /\ elapsed' = elapsed + 5000
  /\ recovery' = [recovery EXCEPT !.since = IF @ < 0 THEN @ ELSE Min(@ + 5000, MaxTicks * 5000)]
  /\ UNCHANGED <<iter, errVars, setCalls, boundsFailed, dragVars, mounted, lastCmd, removePending, setVars, recVars, muteVars>>

(* mutant: smartRecovery without the trailing trackInteraction             *)
smartRecoveryNoTrack ==
  /\ IF elapsed > RecoveryThreshold
     THEN /\ removePending < MaxResets
          /\ removePending' = removePending + 1
          /\ lastCmd' = "remove"
          /\ recovery' = [last |-> "full", since |-> 0]
          /\ UNCHANGED <<overlay, setCalls>>
     ELSE /\ updateOverlayBounds(mountClosure.pos, mountClosure.settings)
          /\ recovery' = [recovery EXCEPT !.last = "light"]
          /\ UNCHANGED removePending
  /\ elapsed' = elapsed

(* mutant: smartRecovery without the aggressive branch                     *)
smartRecoveryLight ==
  /\ updateOverlayBounds(mountClosure.pos, mountClosure.settings)
  /\ recovery' = [recovery EXCEPT !.last = "light"]
  /\ UNCHANGED removePending
  /\ elapsed' = 0

(* smartRecovery, a closure of the mount effect, followed by               *)
(* trackInteraction                                                        *)
smartRecovery ==
  /\ IF elapsed > RecoveryThreshold
     THEN /\ removePending < MaxResets
          /\ removePending' = removePending + 1
          /\ lastCmd' = "remove"
          /\ recovery' = [last |-> "full", since |-> 0]
          /\ UNCHANGED <<overlay, setCalls>>
     ELSE /\ updateOverlayBounds(mountClosure.pos, mountClosure.settings)
          /\ recovery' = [recovery EXCEPT !.last = "light"]
          /\ UNCHANGED removePending
  /\ elapsed' = 0

(* window "focus" listener                                                 *)
handleWindowFocus ==
  /\ mounted
  /\ smartRecovery
  /\ UNCHANGED <<iter, errVars, boundsFailed, mounted, setVars, recVars, muteVars, dragEnded, position, isDragging,
                 dragOffset, isDraggingRef, dragOffsetRef, showSettings, toolbarRect,
                 inner, savedPosition, boundsTimer, settingsTimer, pendingTimers,
                 updateScheduledRef, mountClosure>>

(* document "visibilitychange" listener; hidden is document.hidden         *)
handleVisibilityChange(hidden) ==
  /\ mounted
  /\ IF ~hidden THEN smartRecovery
                ELSE UNCHANGED <<overlay, lastCmd, removePending, elapsed, setCalls,
                                 recovery>>
  /\ UNCHANGED <<iter, errVars, boundsFailed, mounted, setVars, recVars, muteVars, dragEnded, position, isDragging,
                 dragOffset, isDraggingRef, dragOffsetRef, showSettings, toolbarRect,
                 inner, savedPosition, boundsTimer, settingsTimer, pendingTimers,
                 updateScheduledRef, mountClosure>>

(* window "resize" listener: the debouncedUpdateBounds of the first render *)
(* cancels the pending debounce and arms its own                           *)
handleWindowResize(win) ==
  /\ mounted
  /\ win # inner
  /\ inner' = win
  /\ boundsTimer' = debouncedUpdateBounds(mountClosure)
  /\ UNCHANGED <<iter, errVars, ovVars, setVars, recVars, muteVars, dragEnded, position, isDragging,
                 dragOffset, isDraggingRef, dragOffsetRef, showSettings, toolbarRect,
                 savedPosition, settingsTimer, pendingTimers, updateScheduledRef,
                 mountClosure, overlay>>

(* onMouseEnter of the toolbar: trackInteraction(), then the               *)
(* updateOverlayBounds of the current render                               *)
onMouseEnter ==
  /\ mounted
  /\ elapsed' = 0
  /\ updateOverlayBounds(position, showSettings)
  /\ UNCHANGED <<iter, errVars, recovery, boundsFailed, mounted, removePending, setVars, recVars, muteVars, dragEnded,
                 position, isDragging, dragOffset, isDraggingRef, dragOffsetRef,
                 showSettings, toolbarRect, inner, savedPosition, boundsTimer,
                 settingsTimer, pendingTimers, updateScheduledRef, mountClosure>>

(* removeFakeWindow of smartRecovery resolves: .then arms the 100 ms timer *)
RemoveResolve ==
  /\ removePending > 0
  /\ removePending' = removePending - 1
  /\ pendingTimers' = pendingTimers \cup {"reset"}
  /\ UNCHANGED <<iter, errVars, recovery, setCalls, boundsFailed, mounted, elapsed, lastCmd, setVars, recVars, muteVars, dragEnded,
                 position, isDragging, dragOffset, isDraggingRef, dragOffsetRef,
                 showSettings, toolbarRect, inner, savedPosition, boundsTimer,
                 settingsTimer, updateScheduledRef, mountClosure, overlay>>

(* removeFakeWindow of smartRecovery rejects: .catch(console.error)        *)
RemoveReject ==
  /\ removePending > 0
  /\ removePending' = removePending - 1
  /\ UNCHANGED <<iter, errVars, recovery, setCalls, boundsFailed, mounted, elapsed, lastCmd, setVars, recVars, muteVars, dragVars>>

(* calls of the cleanups that are neither awaited in a try block nor given *)
(* a .catch: removeFakeWindow("control") of the mount effect, and the       *)
(* unsubscribeSession.then(unlisten => unlisten()) chain                    *)
TeardownCalls == {"teardownRemove", "unlisten"}

(* cleanup of the effects at unmount: the listeners are removed, the       *)
(* debounce timer and the position-detection timers are cleared,           *)
(* removeFakeWindow("control") is issued and the session listener is       *)
(* unsubscribed; React has set toolbarRef.current to null                  *)
Unmount ==
  /\ mounted
  /\ mounted' = FALSE
  /\ boundsTimer' = <<>>
  /\ pendingTimers' = pendingTimers \ DetectTimers
  /\ lastCmd' = "remove"
  /\ extCalls' = extCalls \cup TeardownCalls
  /\ UNCHANGED <<iter, uncaught, recovery, setCalls, boundsFailed, elapsed, removePending, setVars, recVars, muteVars, dragEnded,
                 position, isDragging, dragOffset, isDraggingRef, dragOffsetRef,
                 showSettings, toolbarRect, inner, savedPosition, settingsTimer,
                 updateScheduledRef, mountClosure, overlay>>

(* mutant: a rejected setFakeWindowBounds call tears the component down    *)
SetBoundsRejectUnmounts ==
  /\ setCalls > 0
  /\ setCalls' = setCalls - 1
  /\ boundsFailed' = TRUE
  /\ mounted' = FALSE
  /\ UNCHANGED <<iter, errVars, recovery, elapsed, lastCmd, removePending, dragVars, setVars,
                 recVars, muteVars>>

(* the awaited setFakeWindowBounds call rejects: the catch logs the error  *)
SetBoundsReject ==
  /\ setCalls > 0
  /\ setCalls' = setCalls - 1
  /\ boundsFailed' = TRUE
  /\ UNCHANGED <<iter, errVars, recovery, mounted, elapsed, lastCmd, removePending, dragVars,
                 setVars, recVars, muteVars>>

(* the awaited setFakeWindowBounds call resolves                           *)
SetBoundsResolve ==
  /\ setCalls > 0
  /\ setCalls' = setCalls - 1
  /\ UNCHANGED <<iter, errVars, recovery, mounted, elapsed, lastCmd, removePending, boundsFailed,
                 dragVars, setVars, recVars, muteVars>>

NextOverlay ==
  \/ SetBoundsResolve
  \/ SetBoundsReject
  \/ Tick
  \/ handleWindowFocus
  \/ \E hidden \in BOOLEAN : handleVisibilityChange(hidden)
  \/ \E win \in ResizedScreens : handleWindowResize(win)
  \/ onMouseEnter
  \/ handleMouseUp
  \/ openSettings
  \/ FireBoundsTimer
  \/ \E name \in {"initial", "dragEnd", "reset"} : FireTimer(name)
  \/ RemoveResolve
  \/ RemoveReject
  \/ Unmount

SpecOverlay == InitOverlay /\ [][NextOverlay]_vars

----------------------------------------------------------------------------
(* SpecErrors: the external calls of part_008 and what becomes of their    *)
(* rejections.  The calls made inside try / catch (setFakeWindowBounds) or  *)
(* with .catch (removeFakeWindow of smartRecovery) are the actions above;   *)
(* the ones below have no handler.                                          *)

(* "Open Main Settings" of the popover: the async arrow awaits              *)
(* windowsCommands.windowShow outside any try block                         *)
openMainSettings ==
  /\ mounted
  /\ showSettings
  /\ "windowShow" \notin extCalls
  /\ extCalls' = extCalls \cup {"windowShow"}
  /\ UNCHANGED <<iter, uncaught, dragVars, ovVars, setVars, recVars, muteVars>>

(* windowShow resolves: onClose() is setShowSettings(false); if that        *)
(* changes the state of a mounted component its showSettings effect runs   *)
WindowShowResolve ==
  /\ "windowShow" \in extCalls
  /\ extCalls' = extCalls \ {"windowShow"}
  /\ IF mounted /\ showSettings
     THEN /\ showSettings' = FALSE
          /\ boundsTimer' = debouncedUpdateBounds(Closure(position, FALSE))
     ELSE UNCHANGED <<showSettings, boundsTimer>>
  /\ UNCHANGED <<iter, uncaught, ovVars, setVars, recVars, muteVars, dragEnded,
                 position, isDragging, dragOffset, isDraggingRef, dragOffsetRef,
                 toolbarRect, inner, savedPosition, settingsTimer, pendingTimers,
                 updateScheduledRef, mountClosure, overlay>>

(* a call of the cleanups settles: nothing waits for the result             *)
TeardownResolve(c) ==
  /\ c \in TeardownCalls
  /\ c \in extCalls
  /\ extCalls' = extCalls \ {c}
  /\ UNCHANGED <<iter, uncaught, dragVars, ovVars, setVars, recVars, muteVars>>

(* a call without a handler rejects: the promise of the async arrow (or of  *)
(* the call, or of the .then chain) is rejected and nothing handles it; for *)
(* windowShow, onClose() is not reached                                     *)
ExtReject(c) ==
  /\ c \in extCalls
  /\ extCalls' = extCalls \ {c}
  /\ uncaught' = uncaught \cup {c}
  /\ UNCHANGED <<iter, dragVars, ovVars, setVars, recVars, muteVars>>

NextErrors ==
  \/ openSettings
  \/ openMainSettings
  \/ WindowShowResolve
  \/ \E c \in TeardownCalls : TeardownResolve(c)
  \/ \E c \in TeardownCalls \cup {"windowShow"} : ExtReject(c)
  \/ Tick
  \/ handleWindowFocus
  \/ onMouseEnter
  \/ RemoveResolve
  \/ RemoveReject
  \/ SetBoundsResolve
  \/ SetBoundsReject
  \/ FireBoundsTimer
  \/ \E name \in {"initial", "reset"} : FireTimer(name)
  \/ Unmount

SpecErrors == InitOverlay /\ [][NextErrors]_vars

\* C33: no rejected external call escapes uncaught from an async entry point
\* of the control surface: setOverlayBounds, removeOverlayBounds (in the full
\* reset and at teardown), windowShow of "Open Main Settings" and the event
\* unsubscribe at teardown are all caught and logged.
C33_NoUncaughtRejection == uncaught = {}

----------------------------------------------------------------------------
(* Properties of the overlay registration (SpecOverlay)                    *)

\* C15: once the component is torn down, removeFakeWindow("control") has
\* been issued and it is the overlay command issued last, whatever timers
\* and promise continuations were still pending.
C15_RemoveIsLast == ~mounted => lastCmd = "remove"

C15_Witness ==
  /\ ~mounted /\ lastCmd = "remove"
  /\ overlay # <<>>
  /\ pendingTimers = {} /\ removePending = 0

FocusOrVisible == handleWindowFocus \/ handleVisibilityChange(FALSE)

\* C16: focus regained or the page becoming visible more than 10 s after
\* the last interaction issues removeFakeWindow and publishes nothing until
\* that call has resolved; at 10 s or less it publishes bounds and issues no
\* removeFakeWindow; the page becoming hidden does neither.
C16_SmartRecovery ==
  [][/\ (FocusOrVisible /\ elapsed > 10000) =>
          /\ lastCmd' = "remove" /\ removePending' = removePending + 1
          /\ overlay' = overlay /\ pendingTimers' = pendingTimers
     /\ (FocusOrVisible /\ elapsed <= 10000) =>
          /\ lastCmd' = "set" /\ overlay' # <<>>
          /\ removePending' = removePending
     /\ handleVisibilityChange(TRUE) =>
          UNCHANGED <<lastCmd, overlay, removePending, pendingTimers, boundsTimer>>
     /\ ("reset" \in pendingTimers' /\ "reset" \notin pendingTimers) =>
          removePending' = removePending - 1]_vars

C16_Witness ==
  /\ mounted /\ elapsed = 0
  /\ removePending = 1 /\ lastCmd = "remove"

(* a recovery trigger that performs the full reset                        *)
FullReset == FocusOrVisible /\ recovery'.last = "full" /\ removePending' = removePending + 1

\* C38: two recovery triggers (focus or visibility regained) less than 10 s
\* apart never both perform the full reset: every trigger sets
\* lastInteractionRef to the current time, so a trigger that follows a full
\* reset by less than 10 s does the lightweight resync.
C38_NoDoubleFullReset ==
  [][/\ FullReset => (recovery.since < 0 \/ recovery.since >= 10000)
     /\ (FocusOrVisible /\ recovery.since >= 0 /\ recovery.since < 10000) =>
          (recovery'.last = "light" /\ lastCmd' = "set"
            /\ removePending' = removePending)
     /\ FocusOrVisible => elapsed' = 0]_vars

\* a trigger 5 s after a full reset has done the lightweight resync
C38_Witness ==
  /\ mounted
  /\ recovery = [last |-> "light", since |-> 5000]
  /\ elapsed = 0
  /\ lastCmd = "set"

\* C17: a window resize or the pointer entering the surface more than 10 s
\* after the last interaction performs the full reset (removeFakeWindow,
\* then re-publish), like focus and visibility.
C17_ResizeEnterFullReset ==
  [][((onMouseEnter \/ \E win \in ResizedScreens : handleWindowResize(win))
        /\ elapsed > 10000) =>
       (lastCmd' = "remove" /\ removePending' = removePending + 1)]_vars

\* C25: a rejected setFakeWindowBounds call changes nothing of the
\* component (position, drag state, popover flag, recording status, Loading,
\* mute flags, timers), and after a rejection every trigger publishes as
\* before: hover, the debounce timer and a recovery within 10 s each issue
\* setFakeWindowBounds.
C25_RejectedPublishHarmless ==
  [][/\ SetBoundsReject =>
          UNCHANGED <<dragVars, mounted, elapsed, lastCmd, removePending,
                      setVars, recVars, muteVars>>
     /\ (/\ boundsFailed /\ mounted
         /\ \/ onMouseEnter
            \/ FireBoundsTimer
            \/ (FocusOrVisible /\ elapsed <= RecoveryThreshold))
          => /\ lastCmd' = "set" /\ overlay' # <<>>
             /\ setCalls' = Min(setCalls + 1, MaxSetCalls)]_vars

C25_Witness ==
  /\ boundsFailed /\ mounted
  /\ setCalls = 1 /\ lastCmd = "set"
  /\ showSettings /\ overlay = <<OverlayRect(position, TRUE)>>

(* SpecOverlay with the progress the runtime guarantees: a pending         *)
(* removeFakeWindow call settles (resolves or rejects) and an armed timer  *)
(* fires; the events of the user and of the window system are not forced   *)
SpecOverlayLive ==
  /\ SpecOverlay
  /\ WF_vars(RemoveResolve \/ RemoveReject)
  /\ WF_vars(FireBoundsTimer)
  /\ \A name \in {"initial", "dragEnd", "reset"} : WF_vars(FireTimer(name))
  /\ WF_vars(SetBoundsResolve \/ SetBoundsReject)

\* C24: every full reset (removeFakeWindow issued by the recovery) is
\* eventually followed by a setFakeWindowBounds call while the component
\* stays mounted, whether the removeFakeWindow call resolves or rejects.
C24_ResetRepublishes ==
  (mounted /\ lastCmd = "remove") ~> (~mounted \/ lastCmd = "set")

(* a step in which updateOverlayBounds is called                            *)
Publishes ==
  \/ TimerPublishes
  \/ onMouseEnter
  \/ (FocusOrVisible /\ elapsed <= RecoveryThreshold)

\* C21: every rectangle passed to setFakeWindowBounds, whichever trigger
\* publishes it, is the one computed from the position and the showSettings
\* flag current at the time of the call.
C21_CurrentGeometry ==
  [][(Publishes /\ mounted) =>
       overlay' = <<OverlayRect(position, showSettings)>>]_vars

(* rectangle r lies within the screen and is not empty                     *)
OnScreen(r) ==
  /\ r.width > 0 /\ r.height > 0
  /\ 0 <= r.x /\ r.x + r.width <= inner.w
  /\ 0 <= r.y /\ r.y + r.height <= inner.h

\* C39: every rectangle passed to setFakeWindowBounds lies within
\* [0, innerWidth] x [0, innerHeight] and has positive width and height, with
\* the popover closed and with the popover open at any clamped position.
C39_BoundsOnScreen ==
  [][(Publishes /\ mounted /\ iter = "p008") => OnScreen(overlay'[1])]_vars

----------------------------------------------------------------------------
(* SpecRec: the cached recording status, the Loading flag and the          *)
(* transition commands (part_008; part_007 has the same handlers)          *)

MaxCommands == 2

MaxExternal == 1

Statuses == {"inactive", "running_active", "running_paused"}

isRecording == recordingStatus # "inactive"

isRecordingActive == recordingStatus = "running_active"

isRecordingPaused == recordingStatus = "running_paused"

(* listener subsystem: the status a command leads to, and the statuses in  *)
(* which it is a transition of the session state machine                   *)
ListenerTarget(cmd) ==
  CASE cmd = "startSession" -> "running_active"
    [] cmd = "stopSession" -> "inactive"
    [] cmd = "pauseSession" -> "running_paused"
    [] cmd = "resumeSession" -> "running_active"

ListenerAccepts(state, cmd) ==
  CASE cmd = "startSession" -> state = "inactive"
    [] cmd = "stopSession" -> state # "inactive"
    [] cmd = "pauseSession" -> state = "running_active"
    [] cmd = "resumeSession" -> state = "running_paused"

DragAtRest ==
  /\ inner = [w |-> 1920, h |-> 1080]
  /\ toolbarRect = [width |-> 200, height |-> 60]
  /\ position = InitialPosition(<<>>, inner)
  /\ savedPosition = <<position>>
  /\ isDragging = FALSE
  /\ dragOffset = Pt(0, 0)
  /\ isDraggingRef = FALSE
  /\ dragOffsetRef = Pt(0, 0)
  /\ showSettings = FALSE
  /\ mountClosure = Closure(position, FALSE)
  /\ boundsTimer = <<>>
  /\ settingsTimer = <<>>
  /\ pendingTimers = {}
  /\ updateScheduledRef = FALSE
  /\ overlay = <<OverlayRect(position, FALSE)>>
  /\ dragEnded = FALSE

DragIdle ==
  /\ DragAtRest
  /\ OvIdle
  /\ SetIdle

InitRec ==
  /\ iter = "p008"
  /\ DragIdle
  /\ MuteIdle
  /\ recordingStatus = "inactive"
  /\ recordingLoading = FALSE
  /\ calls = <<>>
  /\ listenerState \in Statuses
  /\ sessionEvents = <<>>
  /\ poll = [st |-> "sent", value |-> "inactive"]
  /\ lastPushed = "none"
  /\ externalCount = 0
  /\ lastClick = "none"

NewCall(cmd) ==
  [cmd |-> cmd, st |-> "sent", resolved |-> FALSE, evDone |-> FALSE,
   at |-> recordingStatus, dirty |-> FALSE]

(* mutant: the isRecording test is dropped                                 *)
toggleRecordingCmdNoGuard ==
  IF isRecordingActive THEN "stopSession" ELSE "resumeSession"

(* the command toggleRecording awaits, chosen from the rendered status     *)
toggleRecordingCmd ==
  IF isRecording
  THEN IF isRecordingActive THEN "stopSession"
       ELSE IF isRecordingPaused THEN "resumeSession"
       ELSE "none"
  ELSE "startSession"

(* mutant: the status is advanced optimistically at dispatch              *)
toggleRecordingOptimistic ==
  /\ toggleRecordingCmd # "none"
  /\ recordingLoading' = TRUE
  /\ calls' = Append(calls, NewCall(toggleRecordingCmd))
  /\ recordingStatus' = ListenerTarget(toggleRecordingCmd)

(* toggleRecording up to its await                                         *)
toggleRecording ==
  IF toggleRecordingCmd = "none"
  THEN /\ recordingLoading' = FALSE
       /\ UNCHANGED <<recordingStatus, calls>>
  ELSE /\ recordingLoading' = TRUE
       /\ calls' = Append(calls, NewCall(toggleRecordingCmd))
       /\ UNCHANGED recordingStatus

(* pauseRecording up to its await                                          *)
pauseRecording ==
  IF isRecordingActive
  THEN /\ recordingLoading' = TRUE
       /\ calls' = Append(calls, NewCall("pauseSession"))
       /\ UNCHANGED recordingStatus
  ELSE /\ recordingLoading' = FALSE
       /\ UNCHANGED <<recordingStatus, calls>>

(* mutant: handleClick ignores the disabled prop                           *)
IconButtonRunsAlways(disabled) == TRUE

(* IconButton.handleClick: the onClick prop runs unless disabled           *)
IconButtonRuns(disabled) == ~disabled

(* click on the Stop/Start button                                          *)
ClickStopStart ==
  /\ Len(calls) < MaxCommands
  /\ IF IconButtonRuns(recordingLoading)
     THEN toggleRecording /\ lastClick' = "stopStart:ran"
     ELSE UNCHANGED <<recordingStatus, recordingLoading, calls>>
          /\ lastClick' = "stopStart:ignored"
  /\ UNCHANGED <<iter, errVars, ovVars, setVars, dragVars, muteVars, listenerState, sessionEvents, poll, lastPushed, externalCount>>

(* click on the Pause/Resume button, rendered only while recording         *)
ClickPauseResume ==
  /\ isRecording
  /\ Len(calls) < MaxCommands
  /\ IF IconButtonRuns(recordingLoading)
     THEN (IF isRecordingActive THEN pauseRecording ELSE toggleRecording)
          /\ lastClick' = "pauseResume:ran"
     ELSE UNCHANGED <<recordingStatus, recordingLoading, calls>>
          /\ lastClick' = "pauseResume:ignored"
  /\ UNCHANGED <<iter, errVars, ovVars, setVars, dragVars, muteVars, listenerState, sessionEvents, poll, lastPushed, externalCount>>

(* mutant: the resolved call writes the target status of its command       *)
CallResolveReapplies(i) ==
  /\ i \in 1..Len(calls)
  /\ calls[i].st = "ok" /\ ~calls[i].resolved
  /\ recordingLoading' = FALSE
  /\ recordingStatus' = ListenerTarget(calls[i].cmd)
  /\ calls' = [calls EXCEPT ![i].resolved = TRUE]
  /\ UNCHANGED <<iter, errVars, ovVars, setVars, dragVars, muteVars, listenerState, sessionEvents,
                 poll, lastPushed, externalCount, lastClick>>

(* the awaited command call resolves: finally { setRecordingLoading(false) } *)
CallResolve(i) ==
  /\ i \in 1..Len(calls)
  /\ calls[i].st = "ok" /\ ~calls[i].resolved
  /\ recordingLoading' = FALSE
  /\ calls' = [calls EXCEPT ![i].resolved = TRUE]
  /\ UNCHANGED <<iter, errVars, ovVars, setVars, dragVars, muteVars, recordingStatus, listenerState, sessionEvents,
                 poll, lastPushed, externalCount, lastClick>>

(* mutant: no finally block, a rejected call leaves Loading set           *)
CallRejectNoFinally(i) ==
  /\ i \in 1..Len(calls)
  /\ calls[i].st = "err" /\ ~calls[i].resolved
  /\ calls' = [calls EXCEPT ![i].resolved = TRUE]
  /\ UNCHANGED <<iter, errVars, ovVars, setVars, dragVars, muteVars, recordingStatus, recordingLoading, listenerState,
                 sessionEvents, poll, lastPushed, externalCount, lastClick>>

(* the awaited command call rejects: catch logs, finally clears Loading    *)
CallReject(i) ==
  /\ i \in 1..Len(calls)
  /\ calls[i].st = "err" /\ ~calls[i].resolved
  /\ recordingLoading' = FALSE
  /\ calls' = [calls EXCEPT ![i].resolved = TRUE]
  /\ UNCHANGED <<iter, errVars, ovVars, setVars, dragVars, muteVars, recordingStatus, listenerState, sessionEvents,
                 poll, lastPushed, externalCount, lastClick>>

(* sessionEvent listener, status part                                      *)
SessionEventDeliver ==
  /\ sessionEvents # <<>>
  /\ LET ev == Head(sessionEvents)
     IN /\ IF ev.type \in Statuses
           THEN /\ recordingStatus' = ev.type
                /\ recordingLoading' = FALSE
                /\ lastPushed' = ev.type
                /\ calls' = [i \in 1..Len(calls) |->
                               [calls[i] EXCEPT !.evDone = (@ \/ i = ev.cause),
                                                !.dirty = (@ \/ ~calls[i].resolved)]]
           ELSE UNCHANGED <<recordingStatus, recordingLoading, lastPushed, calls>>
  /\ sessionEvents' = Tail(sessionEvents)
  /\ UNCHANGED <<iter, errVars, ovVars, setVars, dragVars, muteVars, listenerState, poll, externalCount, lastClick>>

(* mutant: the poll result is stored without the test of its value         *)
PollResolveUnchecked ==
  /\ poll.st = "sampled"
  /\ poll' = [poll EXCEPT !.st = "done"]
  /\ recordingStatus' = poll.value
  /\ calls' = [i \in 1..Len(calls) |->
                 [calls[i] EXCEPT !.dirty = (@ \/ ~calls[i].resolved)]]
  /\ UNCHANGED <<iter, errVars, ovVars, setVars, dragVars, muteVars, recordingLoading, listenerState,
                 sessionEvents, lastPushed, externalCount, lastClick>>

(* initializeState: the awaited getState() resolves                        *)
PollResolve ==
  /\ poll.st = "sampled"
  /\ poll' = [poll EXCEPT !.st = "done"]
  /\ IF poll.value \in Statuses
     THEN /\ recordingStatus' = poll.value
          /\ calls' = [i \in 1..Len(calls) |->
                         [calls[i] EXCEPT !.dirty = (@ \/ ~calls[i].resolved)]]
     ELSE UNCHANGED <<recordingStatus, calls>>
  /\ UNCHANGED <<iter, errVars, ovVars, setVars, dragVars, muteVars, recordingLoading, listenerState,
                 sessionEvents, lastPushed, externalCount, lastClick>>

(* initializeState: getState() rejects, the catch logs                     *)
PollReject ==
  /\ poll.st = "sent"
  /\ poll' = [poll EXCEPT !.st = "done"]
  /\ UNCHANGED <<iter, errVars, ovVars, setVars, dragVars, muteVars, recordingStatus, recordingLoading, calls,
                 listenerState, sessionEvents, lastPushed,
                 externalCount, lastClick>>

(* ---- listener subsystem and other windows (environment) ---- *)

(* the listener answers getState() with its current status                 *)
ListenerGetState ==
  /\ poll.st = "sent"
  /\ poll' = [st |-> "sampled", value |-> listenerState]
  /\ UNCHANGED <<iter, errVars, ovVars, setVars, dragVars, muteVars, recordingStatus, recordingLoading, calls,
                 listenerState, sessionEvents, lastPushed,
                 externalCount, lastClick>>

(* the listener performs a command: it moves to the target status and      *)
(* pushes the session event                                                *)
ListenerApply(i) ==
  /\ i \in 1..Len(calls)
  /\ calls[i].st = "sent"
  /\ ListenerAccepts(listenerState, calls[i].cmd)
  /\ listenerState' = ListenerTarget(calls[i].cmd)
  /\ sessionEvents' = Append(sessionEvents, [type |-> listenerState', cause |-> i])
  /\ calls' = [calls EXCEPT ![i].st = "ok"]
  /\ UNCHANGED <<iter, errVars, ovVars, setVars, dragVars, muteVars, recordingStatus, recordingLoading, poll,
                 lastPushed, externalCount, lastClick>>

(* the listener fails a command: no transition, no event                   *)
ListenerFail(i) ==
  /\ i \in 1..Len(calls)
  /\ calls[i].st = "sent"
  /\ calls' = [calls EXCEPT ![i].st = "err"]
  /\ UNCHANGED <<iter, errVars, ovVars, setVars, dragVars, muteVars, recordingStatus, recordingLoading, poll,
                 listenerState, sessionEvents, lastPushed,
                 externalCount, lastClick>>

(* a command that is no transition in the listener's status returns        *)
(* without a transition and without an event                               *)
ListenerNoop(i) ==
  /\ i \in 1..Len(calls)
  /\ calls[i].st = "sent"
  /\ ~ListenerAccepts(listenerState, calls[i].cmd)
  /\ calls' = [calls EXCEPT ![i].st = "ok"]
  /\ UNCHANGED <<iter, errVars, ovVars, setVars, dragVars, muteVars, recordingStatus, recordingLoading, poll,
                 listenerState, sessionEvents, lastPushed,
                 externalCount, lastClick>>

(* another window drives a transition of the session                       *)
ExternalTransition ==
  /\ externalCount < MaxExternal
  /\ \E cmd \in {"startSession", "stopSession", "pauseSession", "resumeSession"} :
       /\ ListenerAccepts(listenerState, cmd)
       /\ listenerState' = ListenerTarget(cmd)
  /\ sessionEvents' = Append(sessionEvents, [type |-> listenerState', cause |-> 0])
  /\ externalCount' = externalCount + 1
  /\ UNCHANGED <<iter, errVars, ovVars, setVars, dragVars, muteVars, recordingStatus, recordingLoading, calls, poll,
                 lastPushed, lastClick>>

NextRec ==
  \/ ClickStopStart
  \/ ClickPauseResume
  \/ \E i \in 1..MaxCommands : CallResolve(i)
  \/ \E i \in 1..MaxCommands : CallReject(i)
  \/ SessionEventDeliver
  \/ PollResolve
  \/ PollReject
  \/ ListenerGetState
  \/ \E i \in 1..MaxCommands : ListenerApply(i)
  \/ \E i \in 1..MaxCommands : ListenerFail(i)
  \/ \E i \in 1..MaxCommands : ListenerNoop(i)
  \/ ExternalTransition

SpecRec == InitRec /\ [][NextRec]_vars

(* ---- SpecRecAny: SpecRec with payloads that are not a status ---- *)

\* session event types and getState() answers outside the three statuses
OtherTypes == {"audioAmplitude"}

(* the listener pushes a session event that is not a status change         *)
OtherSessionEvent ==
  /\ \A k \in 1..Len(sessionEvents) : sessionEvents[k].type \in Statuses
  /\ \E t \in OtherTypes :
       sessionEvents' = Append(sessionEvents, [type |-> t, cause |-> 0])
  /\ UNCHANGED <<iter, errVars, ovVars, setVars, dragVars, muteVars, recordingStatus, recordingLoading, calls,
                 listenerState, poll, lastPushed, externalCount, lastClick>>

(* the listener answers getState() with a value that is not a status       *)
ListenerGetStateOther ==
  /\ poll.st = "sent"
  /\ \E t \in OtherTypes : poll' = [st |-> "sampled", value |-> t]
  /\ UNCHANGED <<iter, errVars, ovVars, setVars, dragVars, muteVars, recordingStatus, recordingLoading, calls,
                 listenerState, sessionEvents, lastPushed,
                 externalCount, lastClick>>

NextRecAny ==
  \/ NextRec
  \/ OtherSessionEvent
  \/ ListenerGetStateOther

SpecRecAny == InitRec /\ [][NextRecAny]_vars

\* C37: the cached status is always one of inactive, running_active and
\* running_paused and starts as inactive; a session event or a result of the
\* initial poll whose type is none of the three leaves the cached status and
\* Loading as they are.
C37_StatusDomain ==
  /\ recordingStatus = "inactive"
  /\ [](recordingStatus \in Statuses)
  /\ [][/\ (SessionEventDeliver /\ Head(sessionEvents).type \notin Statuses) =>
            (recordingStatus' = recordingStatus /\ recordingLoading' = recordingLoading)
        /\ (PollResolve /\ poll.value \notin Statuses) =>
            (recordingStatus' = recordingStatus /\ recordingLoading' = recordingLoading)]_vars

\* the poll resolved with another value while a command was loading, and a
\* session event of another type was handled: status and Loading stand
C37_Witness ==
  /\ poll.st = "done" /\ poll.value \in OtherTypes
  /\ recordingStatus = "running_active"
  /\ recordingLoading
  /\ sessionEvents = <<>>
  /\ lastPushed = "running_active"

----------------------------------------------------------------------------
(* Properties of the recording session controller (SpecRec)                *)

Dispatched == Len(calls') = Len(calls) + 1

NewestCall == calls[Len(calls)]

BothDone(i) == calls[i].resolved /\ calls[i].evDone

\* C2: while Loading is true no step issues a transition command: a click
\* on the Stop/Start or Pause/Resume button is ignored.
C2_NoDispatchWhileLoading ==
  [][recordingLoading => Len(calls') = Len(calls)]_vars

C2_Witness ==
  /\ recordingLoading
  /\ lastClick \in {"stopStart:ignored", "pauseResume:ignored"}
  /\ calls # <<>> /\ ~NewestCall.resolved

\* C3: in the step that completes the pair (call of a command resolved or
\* rejected, session event of that command delivered) the cached status is
\* the status pushed last by the listener and Loading is false.
C3_Convergence ==
  [][\A i \in 1..Len(calls) :
       (~BothDone(i) /\ BothDone(i)') =>
          (recordingStatus' = lastPushed' /\ recordingLoading' = FALSE)]_vars

\* C34: once a session event has been applied to the cached status, the
\* getState() poll of the mount that resolves later (no session event being
\* in flight) does not overwrite it: the cached status stays the status of
\* the most recent session event.
C34_PollKeepsEventStatus ==
  [][(PollResolve /\ lastPushed # "none" /\ sessionEvents = <<>>) =>
        recordingStatus' = lastPushed]_vars

\* C4: a transition command is dispatched only when every earlier command
\* call has resolved or rejected.
C4_NoDispatchWhileUnresolved ==
  [][Dispatched => \A i \in 1..Len(calls) : calls[i].resolved]_vars

\* C5: the Stop/Start button pressed while the cached status is
\* RunningPaused issues stopSession.
C5_StopWhenPaused ==
  [][(lastClick' = "stopStart:ran" /\ ClickStopStart /\ isRecordingPaused) =>
       (Dispatched /\ calls'[Len(calls')].cmd = "stopSession")]_vars

C7_RejectRestoresDispatchStatus ==
  [][\A i \in 1..Len(calls) :
       CallReject(i) =>
          (recordingLoading' = FALSE /\ recordingStatus' = calls[i].at)]_vars

\* C7 amended: a rejected call clears Loading and does not change the cached
\* status; the status is the one held at dispatch unless a session event or
\* the initial poll result was applied in between.
C7_RejectKeepsStatus ==
  [][\A i \in 1..Len(calls) :
       CallReject(i) =>
          /\ recordingLoading' = FALSE
          /\ recordingStatus' = recordingStatus
          /\ (~calls[i].dirty => recordingStatus' = calls[i].at)]_vars

C7_Witness ==
  \E i \in 1..Len(calls) :
    /\ calls[i].cmd = "pauseSession" /\ calls[i].st = "err" /\ calls[i].resolved
    /\ ~calls[i].dirty
    /\ recordingStatus = "running_active" /\ ~recordingLoading

\* C8: every command issued is one the transition table allows for the
\* cached status held at its dispatch.
C8_ValidPairs ==
  \A i \in 1..Len(calls) :
    /\ calls[i].cmd \in {"startSession", "stopSession", "pauseSession", "resumeSession"}
    /\ calls[i].cmd = "startSession" => calls[i].at = "inactive"
    /\ calls[i].cmd = "pauseSession" => calls[i].at = "running_active"
    /\ calls[i].cmd = "resumeSession" => calls[i].at = "running_paused"
    /\ calls[i].cmd = "stopSession" => calls[i].at \in {"running_active", "running_paused"}

C8_Witness ==
  /\ \E i \in 1..Len(calls) : calls[i].cmd = "resumeSession" /\ calls[i].at = "running_paused"
  /\ \E i \in 1..Len(calls) : calls[i].cmd = "pauseSession" /\ calls[i].at = "running_active"

(* call i has been dispatched and has neither resolved nor rejected        *)
InFlight(i) == i \in 1..Len(calls) /\ ~calls[i].resolved

\* C27: while a transition command is in flight, a session event whose
\* status is not the target state of that command leaves Loading true.
C27_LoadingClearedByTargetOnly ==
  [][(/\ SessionEventDeliver
      /\ recordingLoading
      /\ \E i \in 1..Len(calls) : InFlight(i)
      /\ \A i \in 1..Len(calls) :
            InFlight(i) => Head(sessionEvents).type # ListenerTarget(calls[i].cmd))
       => recordingLoading']_vars

\* C28: the resolution of a transition command call, successful or failed,
\* leaves the cached status as it is; a status set by a session event is not
\* replaced by an older value when a command resolves after that event.
C28_ResolutionKeepsStatus ==
  [][\A i \in 1..Len(calls) :
       (CallResolve(i) \/ CallReject(i)) =>
          /\ recordingStatus' = recordingStatus
          /\ (lastPushed # "none" /\ poll.st = "done" /\ sessionEvents = <<>>
               /\ recordingStatus = lastPushed)
                => recordingStatus' = lastPushed']_vars

C28_Witness ==
  \E i \in 1..Len(calls) :
    /\ calls[i].st = "ok" /\ calls[i].resolved /\ calls[i].evDone /\ calls[i].dirty
    /\ externalCount = 1 /\ sessionEvents = <<>>
    /\ lastPushed # ListenerTarget(calls[i].cmd)
    /\ recordingStatus = lastPushed
    /\ ~recordingLoading

----------------------------------------------------------------------------
(* SpecMute: mute flags of the control window and of a second window.      *)
(* The control window runs the iteration iter; the second window runs the  *)
(* toggle and the audio-*-state-changed listeners of part_007.             *)

MaxToggles == 2

Protocol(w) == IF w = "control" THEN iter ELSE "p007"

InitMute ==
  /\ iter \in {"p007", "p008"}
  /\ DragIdle
  /\ RecIdle
  /\ listenerMuted = [ch \in Channels |-> FALSE]
  /\ muted = [w \in Windows |-> [ch \in Channels |-> FALSE]]
  /\ muteCalls = <<>>
  /\ toggleCount = 0
  /\ inbox = [w \in Windows |-> [ch \in Channels |-> <<>>]]
  /\ emitted = [ch \in Channels |-> FALSE]
  /\ muteEvents = <<>>
  /\ mutePoll = [st |-> "sent", value |-> [ch \in Channels |-> FALSE]]
  /\ lastApplied = [w \in Windows |-> NoEvent]

(* history: window w handled the mute event (ch, v)                        *)
Applied(w, ch, v) ==
  [lastApplied EXCEPT ![w] =
     [ch |-> ch, value |-> v,
      dup |-> (lastApplied[w].ch = ch /\ lastApplied[w].value = v)]]

(* history: the flags chs of window w are written while the calls are in   *)
(* flight                                                                  *)
Touch(w, chs) ==
  [j \in 1..Len(muteCalls) |->
     IF muteCalls[j].w = w /\ muteCalls[j].ch \in chs
     THEN [muteCalls[j] EXCEPT !.dirty = TRUE] ELSE muteCalls[j]]

Without(seq, i) == [j \in 1..(Len(seq) - 1) |-> IF j < i THEN seq[j] ELSE seq[j + 1]]

(* toggleMic / toggleSpeaker up to the awaited mute-set call               *)
toggleClick(w, ch) ==
  /\ toggleCount < MaxToggles
  /\ toggleCount' = toggleCount + 1
  /\ muteCalls' = Append(muteCalls,
                         [w |-> w, ch |-> ch, muted |-> ~muted[w][ch], st |-> "sent",
                          dirty |-> FALSE])
  /\ UNCHANGED <<iter, errVars, ovVars, setVars, dragVars, recVars, muted, listenerMuted, inbox, emitted,
                 muteEvents, mutePoll, lastApplied>>

toggleMic(w) == toggleClick(w, "mic")

toggleSpeaker(w) == toggleClick(w, "speaker")

(* the mute-set call resolves: setMicMuted(newMuted), then emit(...)       *)
toggleResolve(i) ==
  /\ i \in 1..Len(muteCalls)
  /\ muteCalls[i].st = "ok"
  /\ muted' = [muted EXCEPT ![muteCalls[i].w][muteCalls[i].ch] = muteCalls[i].muted]
  /\ lastApplied' = [lastApplied EXCEPT ![muteCalls[i].w] = NoEvent]
  /\ muteCalls' = [Touch(muteCalls[i].w, {muteCalls[i].ch}) EXCEPT ![i].st = "emitting"]
  /\ UNCHANGED <<iter, errVars, ovVars, setVars, dragVars, recVars, toggleCount, listenerMuted, inbox,
                 emitted, muteEvents, mutePoll>>

(* mutant: the catch applies the new flag although the call rejected       *)
toggleRejectApplies(i) ==
  /\ i \in 1..Len(muteCalls)
  /\ muteCalls[i].st = "err"
  /\ muted' = [muted EXCEPT ![muteCalls[i].w][muteCalls[i].ch] = muteCalls[i].muted]
  /\ muteCalls' = Without(muteCalls, i)
  /\ UNCHANGED <<iter, errVars, ovVars, setVars, dragVars, recVars, toggleCount, listenerMuted, inbox,
                 emitted, muteEvents, mutePoll, lastApplied>>

(* the mute-set call rejects: the catch logs                               *)
toggleReject(i) ==
  /\ i \in 1..Len(muteCalls)
  /\ muteCalls[i].st = "err"
  /\ muteCalls' = Without(muteCalls, i)
  /\ UNCHANGED <<iter, errVars, ovVars, setVars, dragVars, recVars, muted, toggleCount, listenerMuted, inbox,
                 emitted, muteEvents, mutePoll, lastApplied>>

(* mutant: the listener flips the flag instead of storing the payload      *)
BroadcastDeliverFlip(w, ch) ==
  /\ inbox[w][ch] # <<>>
  /\ LET payload == Head(inbox[w][ch])
     IN /\ muted' = [muted EXCEPT ![w][ch] = ~muted[w][ch]]
        /\ lastApplied' = Applied(w, ch, payload.muted)
  /\ inbox' = [inbox EXCEPT ![w][ch] = Tail(@)]
  /\ muteCalls' = Touch(w, {ch})
  /\ UNCHANGED <<iter, errVars, ovVars, setVars, dragVars, recVars, toggleCount, listenerMuted,
                 emitted, muteEvents, mutePoll>>

(* part_007 listen("audio-mic-state-changed") / ("audio-speaker-state-changed") *)
BroadcastDeliver(w, ch) ==
  /\ inbox[w][ch] # <<>>
  /\ LET payload == Head(inbox[w][ch])
     IN /\ muted' = [muted EXCEPT ![w][ch] = payload.muted]
        /\ lastApplied' = Applied(w, ch, payload.muted)
  /\ inbox' = [inbox EXCEPT ![w][ch] = Tail(@)]
  /\ muteCalls' = Touch(w, {ch})
  /\ UNCHANGED <<iter, errVars, ovVars, setVars, dragVars, recVars, toggleCount, listenerMuted,
                 emitted, muteEvents, mutePoll>>

(* mutant: a mute notification is stored in both flags                     *)
SessionMuteDeliverBoth ==
  /\ muteEvents # <<>>
  /\ LET payload == Head(muteEvents)
     IN /\ muted' = [muted EXCEPT !["control"] = [ch \in Channels |-> payload.value]]
        /\ lastApplied' = Applied("control", payload.type, payload.value)
  /\ muteEvents' = Tail(muteEvents)
  /\ muteCalls' = Touch("control", {Head(muteEvents).type})
  /\ UNCHANGED <<iter, errVars, ovVars, setVars, dragVars, recVars, toggleCount, listenerMuted,
                 inbox, emitted, mutePoll>>

(* part_008 sessionEvent listener, micMuted / speakerMuted part            *)
SessionMuteDeliver ==
  /\ muteEvents # <<>>
  /\ LET payload == Head(muteEvents)
     IN /\ muted' = [muted EXCEPT !["control"][payload.type] = payload.value]
        /\ lastApplied' = Applied("control", payload.type, payload.value)
  /\ muteEvents' = Tail(muteEvents)
  /\ muteCalls' = Touch("control", {Head(muteEvents).type})
  /\ UNCHANGED <<iter, errVars, ovVars, setVars, dragVars, recVars, toggleCount, listenerMuted,
                 inbox, emitted, mutePoll>>

(* initializeState: the awaited getMicMuted / getSpeakerMuted resolve      *)
MutePollResolve ==
  /\ mutePoll.st = "sampled"
  /\ mutePoll' = [mutePoll EXCEPT !.st = "done"]
  /\ muted' = [muted EXCEPT !["control"] = mutePoll.value]
  /\ lastApplied' = [lastApplied EXCEPT !["control"] = NoEvent]
  /\ muteCalls' = Touch("control", Channels)
  /\ UNCHANGED <<iter, errVars, ovVars, setVars, dragVars, recVars, toggleCount, listenerMuted,
                 inbox, emitted, muteEvents>>

(* initializeState: a call rejects, the catch logs                         *)
MutePollReject ==
  /\ mutePoll.st = "sent"
  /\ mutePoll' = [mutePoll EXCEPT !.st = "done"]
  /\ UNCHANGED <<iter, errVars, ovVars, setVars, dragVars, recVars, muted, muteCalls, toggleCount,
                 listenerMuted, inbox, emitted, muteEvents, lastApplied>>

(* ---- listener subsystem and event bus (environment) ---- *)

(* the listener stores the flag and pushes the mute notification, which a  *)
(* part_008 window handles in its sessionEvent listener                    *)
ListenerSetMuted(i) ==
  /\ i \in 1..Len(muteCalls)
  /\ muteCalls[i].st = "sent"
  /\ listenerMuted' = [listenerMuted EXCEPT ![muteCalls[i].ch] = muteCalls[i].muted]
  /\ muteEvents' = IF iter = "p008"
                   THEN Append(muteEvents, [type |-> muteCalls[i].ch,
                                            value |-> muteCalls[i].muted])
                   ELSE muteEvents
  /\ muteCalls' = [muteCalls EXCEPT ![i].st = "ok"]
  /\ UNCHANGED <<iter, errVars, ovVars, setVars, dragVars, recVars, muted, toggleCount, inbox, emitted,
                 mutePoll, lastApplied>>

(* the listener fails the mute-set call                                    *)
ListenerSetMutedFail(i) ==
  /\ i \in 1..Len(muteCalls)
  /\ muteCalls[i].st = "sent"
  /\ muteCalls' = [muteCalls EXCEPT ![i].st = "err"]
  /\ UNCHANGED <<iter, errVars, ovVars, setVars, dragVars, recVars, muted, toggleCount, listenerMuted, inbox,
                 emitted, muteEvents, mutePoll, lastApplied>>

(* the listener answers getMicMuted / getSpeakerMuted                      *)
ListenerGetMuted ==
  /\ mutePoll.st = "sent"
  /\ mutePoll' = [st |-> "sampled", value |-> listenerMuted]
  /\ UNCHANGED <<iter, errVars, ovVars, setVars, dragVars, recVars, muted, muteCalls, toggleCount,
                 listenerMuted, inbox, emitted, muteEvents, lastApplied>>

(* the event bus takes the emitted payload and queues it, in one order,    *)
(* for every window that listens to the event name                         *)
EmitArrive(i) ==
  /\ i \in 1..Len(muteCalls)
  /\ muteCalls[i].st = "emitting"
  /\ inbox' = [w \in Windows |->
                 IF Protocol(w) = "p007"
                 THEN [inbox[w] EXCEPT ![muteCalls[i].ch] =
                         Append(@, [muted |-> muteCalls[i].muted])]
                 ELSE inbox[w]]
  /\ emitted' = [emitted EXCEPT ![muteCalls[i].ch] = TRUE]
  /\ muteCalls' = Without(muteCalls, i)
  /\ UNCHANGED <<iter, errVars, ovVars, setVars, dragVars, recVars, muted, toggleCount, listenerMuted,
                 muteEvents, mutePoll, lastApplied>>

NextMute ==
  \/ \E w \in Windows : toggleMic(w)
  \/ \E w \in Windows : toggleSpeaker(w)
  \/ \E i \in 1..MaxToggles : toggleResolve(i)
  \/ \E i \in 1..MaxToggles : toggleReject(i)
  \/ \E w \in Windows, ch \in Channels : BroadcastDeliver(w, ch)
  \/ SessionMuteDeliver
  \/ MutePollResolve
  \/ MutePollReject
  \/ \E i \in 1..MaxToggles : ListenerSetMuted(i)
  \/ \E i \in 1..MaxToggles : ListenerSetMutedFail(i)
  \/ ListenerGetMuted
  \/ \E i \in 1..MaxToggles : EmitArrive(i)

SpecMute == InitMute /\ [][NextMute]_vars

----------------------------------------------------------------------------
(* Properties of the mute synchronizer (SpecMute)                          *)

\* C9: a window that handles the same mute event (same channel, same muted
\* value) twice in a row holds after the second handling the flags it held
\* after the first: the handlers overwrite, they do not toggle.
C9_IdempotentMuteEvent ==
  [][/\ \A w \in Windows, ch \in Channels :
          (BroadcastDeliver(w, ch) /\ lastApplied'[w].dup) => muted'[w] = muted[w]
     /\ (SessionMuteDeliver /\ lastApplied'["control"].dup)
          => muted'["control"] = muted["control"]]_vars

C9_Witness ==
  \E w \in Windows :
    /\ lastApplied[w].dup
    /\ muted[w][lastApplied[w].ch] = lastApplied[w].value

\* C11 as stated: when the mute-set call of a toggle rejects, the window's
\* flag is afterwards the value it had when the toggle was clicked, and no
\* audio-*-state-changed payload is emitted for the toggle.
C11_RejectRestoresFlag ==
  [][\A i \in 1..Len(muteCalls) :
       toggleReject(i) =>
          /\ muted'[muteCalls[i].w][muteCalls[i].ch] = ~muteCalls[i].muted
          /\ inbox' = inbox /\ emitted' = emitted]_vars

\* C11 amended: a rejected mute-set call writes no flag and emits no payload;
\* the flag is the value held at the click unless another toggle, a mute
\* event or the initial poll result wrote it while the call was in flight.
C11_RejectKeepsFlag ==
  [][\A i \in 1..Len(muteCalls) :
       toggleReject(i) =>
          /\ muted' = muted
          /\ inbox' = inbox /\ emitted' = emitted
          /\ Len(muteCalls') = Len(muteCalls) - 1
          /\ (~muteCalls[i].dirty =>
                muted'[muteCalls[i].w][muteCalls[i].ch] = ~muteCalls[i].muted)]_vars

C11_Witness ==
  /\ iter = "p008"
  /\ toggleCount = 1 /\ muteCalls = <<>>
  /\ mutePoll.st = "done"
  /\ ~emitted["mic"] /\ ~emitted["speaker"]
  /\ muted["control"] = [ch \in Channels |-> FALSE]
  /\ listenerMuted = [ch \in Channels |-> FALSE]

Quiescent(ch) ==
  /\ \A i \in 1..Len(muteCalls) : muteCalls[i].ch # ch
  /\ \A w \in Windows : inbox[w][ch] = <<>>

\* C10: with both windows running the toggle and the broadcast listeners, once
\* the toggles of a channel are finished and every payload emitted for it has
\* been handled by both windows, the two windows hold the same flag.
C10_BroadcastConvergence ==
  \A ch \in Channels :
    (iter = "p007" /\ emitted[ch] /\ Quiescent(ch))
       => muted["control"][ch] = muted["peer"][ch]

----------------------------------------------------------------------------
(* SpecInteract: lastInteractionRef under the interactions of the user     *)
(* with a mounted part_008 surface                                         *)

InitInteract ==
  /\ iter = "p008"
  /\ DragIdle
  /\ MuteIdle
  /\ recordingStatus \in Statuses
  /\ listenerState = recordingStatus
  /\ recordingLoading = FALSE
  /\ calls = <<>>
  /\ sessionEvents = <<>>
  /\ poll = [st |-> "done", value |-> recordingStatus]
  /\ lastPushed = "none"
  /\ externalCount = 0
  /\ lastClick = "none"

(* The toolbar's elements (part_008 617-741) and the popover's buttons      *)
(* (part_008 800-890).  A pointer-down bubbles from its target through the   *)
(* target's ancestors and runs handleMouseDown at every element that has it  *)
(* as onMouseDown; only the drag handle has one (part_008 713-720), and no   *)
(* button is inside the handle.                                              *)
Buttons ==
  {"mic", "speaker", "pauseResume", "stopStart", "screenshot", "settings",
   "popupClose", "popupAutoStart", "popupAudioLevels", "popupAlwaysOnTop",
   "popupOpenMain"}

PopupButtons ==
  {"popupClose", "popupAutoStart", "popupAudioLevels", "popupAlwaysOnTop",
   "popupOpenMain"}

BubblePath(target) ==
  IF target \in PopupButtons
  THEN {target, "popup", "root"}
  ELSE {target, "toolbar", "surface", "root"}

DragListenersOnToolbar == {"toolbar"}

DragListeners == {"dragHandle"}

(* pointer-down on a button that is rendered: the pause / resume button only *)
(* while a session is active or paused, the popover's only while it is open  *)
pressButton(b, off) ==
  /\ mounted
  /\ b = "pauseResume" => recordingStatus # "inactive"
  /\ b \in PopupButtons => showSettings
  /\ IF BubblePath(b) \cap DragListeners # {}
     THEN handleMouseDown(off)
     ELSE UNCHANGED vars

\* where the pointer goes during the drag
InteractPointers == {Pt(260, 260)}

NextInteract ==
  \/ Tick
  \/ onMouseEnter
  \/ \E off \in HandleOffsets : handleMouseDown(off)
  \/ SyncRefs
  \/ \E p \in InteractPointers : handleMouseMove(p.x, p.y)
  \/ handleMouseUp
  \/ openSettings
  \/ ClickStopStart
  \/ ClickPauseResume
  \/ toggleMic("control")
  \/ toggleSpeaker("control")
  \/ \E b \in Buttons, off \in HandleOffsets : pressButton(b, off)
  \/ FireBoundsTimer
  \/ FireTimer("dragEnd")

SpecInteract == InitInteract /\ [][NextInteract]_vars

(* a step in which the user interacts with the surface                     *)
Interaction ==
  \/ \E off \in HandleOffsets : handleMouseDown(off)
  \/ isDraggingRef /\ \E p \in InteractPointers : handleMouseMove(p.x, p.y)
  \/ openSettings
  \/ ClickStopStart /\ lastClick' = "stopStart:ran"
  \/ ClickPauseResume /\ lastClick' = "pauseResume:ran"
  \/ toggleMic("control")
  \/ toggleSpeaker("control")
  \/ onMouseEnter

\* C20: every interaction of the user with the surface (pointer-down and
\* pointer-move of a drag, the recording, pause/resume, mic, speaker and
\* settings buttons, hover) sets lastInteractionRef to the current time.
C20_InteractionTracked ==
  [][Interaction => elapsed' = 0]_vars

(* a button of the toolbar or of the popover is pressed or its click runs   *)
ButtonStep ==
  \/ \E b \in Buttons, off \in HandleOffsets : pressButton(b, off)
  \/ ClickStopStart
  \/ ClickPauseResume
  \/ toggleMic("control")
  \/ toggleSpeaker("control")
  \/ openSettings

\* C32: isDragging becomes true only by a pointer-down on the drag handle;
\* pressing or clicking a button (mic, speaker, pause/resume, stop/start,
\* screenshot, settings, the popover's buttons) never starts a drag and never
\* changes position or dragOffset, and a pointer-down on the handle always
\* starts a drag.
C32_DragOnlyFromHandle ==
  [][/\ ButtonStep =>
          /\ isDragging' = isDragging
          /\ position' = position
          /\ dragOffset' = dragOffset
     /\ (~isDragging /\ isDragging') =>
          \E off \in HandleOffsets : handleMouseDown(off)
     /\ \A off \in HandleOffsets : handleMouseDown(off) => isDragging']_vars

\* a button's click has run, the popover is open, and no drag was started
C32_Witness ==
  /\ lastClick = "stopStart:ran"
  /\ showSettings
  /\ ~isDragging
  /\ dragOffset = Pt(0, 0)

----------------------------------------------------------------------------
(* SpecStart: the useState initialisers of part_008 reading localStorage,  *)
(* and the settings toggles that write it                                  *)

Num(k) == Js("num", k)

\* values of the x and y members of a stored object
JsValues ==
  { Num(-5), Num(100), Num(1000), Num(1800), Js("null", 0), Undefined,
    Js("string", 100), Js("text", 0), Js("boolean", 1) }

\* contents of localStorage 'floating-control-position' when the window opens
StoredItems ==
  { Item(k, Undefined, Undefined) :
      k \in {"absent", "empty", "garbage", "json null", "json scalar"} }
  \cup { Item("object", vx, vy) : vx \in JsValues, vy \in JsValues }

\* contents of localStorage for one settings toggle
StoredToggles == {"absent", "true", "false"}

(* ToNumber of the relational operators: <<>> is NaN                       *)
ToNumber(v) ==
  CASE v.t \in {"num", "string", "boolean"} -> <<v.n>>
    [] v.t = "null" -> <<0>>
    [] OTHER -> <<>>

(* v >= k and v <= k with a number k: false when v converts to NaN         *)
GreaterEq(v, k) == ToNumber(v) # <<>> /\ ToNumber(v)[1] >= k

LessEq(v, k) == ToNumber(v) # <<>> /\ ToNumber(v)[1] <= k

(* the fallback of the position initialiser                                *)
CentredDefault(win) ==
  [x |-> Num((win.w - DefaultBoxWidth) \div 2),
   y |-> Num((win.h - DefaultBoxHeight) \div 2)]

(* the useState initialiser of position: the value it returns.  The try    *)
(* block is left by an exception when JSON.parse throws or when a member   *)
(* of null is read; the catch only warns and the fallback follows.         *)
positionInitialiser(item, win) ==
  LET truthy == item.kind \notin {"absent", "empty"}
      parseThrows == item.kind = "garbage"
      readThrows == item.kind = "json null"
      px == IF item.kind = "object" THEN item.x ELSE Undefined
      py == IF item.kind = "object" THEN item.y ELSE Undefined
      accepted ==
        /\ GreaterEq(px, 0) /\ LessEq(px, win.w - DefaultBoxWidth)
        /\ GreaterEq(py, 0) /\ LessEq(py, win.h - SavedMaxHeightMargin)
  IN IF truthy /\ ~parseThrows /\ ~readThrows /\ accepted
     THEN [x |-> px, y |-> py]
     ELSE CentredDefault(win)

(* JSON.stringify(position) as stored by the position effect: numbers,     *)
(* strings, booleans and null are written as they are, an undefined member *)
(* is left out and reads back as undefined                                 *)
StringifyPosition(pos) == Item("object", pos.x, pos.y)

(* newValue.toString()                                                     *)
BoolToString(b) == IF b THEN "true" ELSE "false"

InitStart ==
  /\ iter = "p008"
  /\ DragAtRest
  /\ RecIdle
  /\ MuteIdle
  /\ mounted = FALSE
  /\ elapsed = 0
  /\ lastCmd = "none"
  /\ removePending = 0
  /\ setCalls = 0
  /\ boundsFailed = FALSE
  /\ recovery = NoRecovery
  /\ extCalls = {}
  /\ uncaught = {}
  /\ storedItem \in StoredItems
  /\ toggleStore \in [Keys -> StoredToggles]
  /\ toggles = [k \in Keys |-> FALSE]
  /\ startPosition = <<>>

(* first render of the component: the initialisers run, then the position  *)
(* effect stores the position                                              *)
ComponentStart ==
  /\ ~mounted
  /\ startPosition' = <<positionInitialiser(storedItem, inner)>>
  /\ toggles' = [k \in Keys |-> StartToggle(k, toggleStore[k])]
  /\ storedItem' = StringifyPosition(startPosition'[1])
  /\ mounted' = TRUE
  /\ UNCHANGED <<iter, errVars, recovery, setCalls, boundsFailed, dragVars, elapsed, lastCmd, removePending,
                 toggleStore, recVars, muteVars>>

(* mutant: the value before the toggle is written to the store            *)
toggleSettingStoresOld(key) ==
  /\ mounted
  /\ toggles' = [toggles EXCEPT ![key] = ~toggles[key]]
  /\ toggleStore' = [toggleStore EXCEPT ![key] = BoolToString(toggles[key])]
  /\ UNCHANGED <<iter, errVars, dragVars, ovVars, storedItem, startPosition,
                 recVars, muteVars>>

(* toggleAutoStart / toggleAudioLevels / toggleAlwaysOnTop for their key   *)
toggleSetting(key) ==
  /\ mounted
  /\ toggles' = [toggles EXCEPT ![key] = ~toggles[key]]
  /\ toggleStore' = [toggleStore EXCEPT ![key] = BoolToString(~toggles[key])]
  /\ UNCHANGED <<iter, errVars, dragVars, ovVars, storedItem, startPosition,
                 recVars, muteVars>>

toggleAutoStart == toggleSetting("autoStartRecording")

toggleAudioLevels == toggleSetting("showAudioLevels")

toggleAlwaysOnTop == toggleSetting("alwaysOnTop")

(* the window is closed; a later ComponentStart is its re-creation         *)
WindowClose ==
  /\ mounted
  /\ mounted' = FALSE
  /\ lastCmd' = "remove"
  /\ startPosition' = <<>>
  /\ extCalls' = extCalls \cup TeardownCalls
  /\ UNCHANGED <<iter, uncaught, recovery, setCalls, boundsFailed, dragVars, elapsed, removePending, storedItem,
                 toggleStore, toggles, recVars, muteVars>>

NextStart ==
  \/ ComponentStart
  \/ toggleAutoStart
  \/ toggleAudioLevels
  \/ toggleAlwaysOnTop
  \/ WindowClose

SpecStart == InitStart /\ [][NextStart]_vars

(* the stored item is an object whose x and y are numbers inside the range *)
(* the initialiser accepts                                                 *)
WellFormed(item, win) ==
  /\ item.kind = "object"
  /\ item.x.t = "num" /\ item.y.t = "num"
  /\ item.x.n >= 0 /\ item.x.n <= win.w - DefaultBoxWidth
  /\ item.y.n >= 0 /\ item.y.n <= win.h - SavedMaxHeightMargin

\* C19: when the stored position is absent, unparsable, not an object with
\* numeric x and y, or out of range, the component starts at the centred
\* default; a settings toggle that is absent from the store starts at its
\* default (autoStartRecording false, showAudioLevels and alwaysOnTop true).
C19_StartDefaults ==
  [][ComponentStart =>
       /\ ~WellFormed(storedItem, inner)
            => startPosition'[1] = CentredDefault(inner)
       /\ \A k \in Keys : toggleStore[k] = "absent"
            => toggles'[k] = (k # "autoStartRecording")]_vars

\* C31: a user toggle inverts the in-memory value of its setting and
\* stores exactly that value, leaving the other two settings alone; a
\* restart (the window closed and opened again) reads back the value held
\* before; no other step changes a setting or its stored value.
C31_TogglePersistence ==
  [][/\ \A k \in Keys :
          toggleSetting(k) =>
            /\ toggles'[k] = ~toggles[k]
            /\ toggleStore'[k] = (IF toggles'[k] THEN "true" ELSE "false")
            /\ \A j \in Keys \ {k} :
                  toggles'[j] = toggles[j] /\ toggleStore'[j] = toggleStore[j]
     /\ (ComponentStart /\ lastCmd = "remove") => toggles' = toggles
     /\ ComponentStart => toggleStore' = toggleStore
     /\ (mounted /\ ~\E k \in Keys : toggleSetting(k))
          => (toggles' = toggles /\ toggleStore' = toggleStore)
     /\ mounted' =>
          \A k \in Keys :
            toggleStore'[k] # "absent" =>
              toggleStore'[k] = (IF toggles'[k] THEN "true" ELSE "false")]_vars

C31_Witness ==
  /\ mounted /\ lastCmd = "remove"
  /\ toggles = [k \in Keys |-> k = "autoStartRecording"]
  /\ toggleStore = [k \in Keys |-> IF k = "autoStartRecording" THEN "true" ELSE "false"]

----------------------------------------------------------------------------
(* SpecPersist: the position of part_008 across a re-creation of the       *)
(* window; the position effect stores every position, the initialiser of   *)
(* the new component reads the store                                       *)

InitPersist == InitDrag /\ iter = "p008"

(* the window is closed and created again on the same screen: the old      *)
(* component is torn down, the new one runs its initialisers and effects   *)
WindowRecreate ==
  /\ mounted
  /\ position' = InitialPosition(savedPosition, inner)
  /\ savedPosition' = <<position'>>
  /\ isDragging' = FALSE
  /\ dragOffset' = Pt(0, 0)
  /\ isDraggingRef' = FALSE
  /\ dragOffsetRef' = Pt(0, 0)
  /\ showSettings' = FALSE
  /\ mountClosure' = Closure(position', FALSE)
  /\ boundsTimer' = <<mountClosure'>>
  /\ settingsTimer' = <<>>
  /\ pendingTimers' = {"initial"}
  /\ updateScheduledRef' = FALSE
  /\ overlay' = <<>>
  /\ lastCmd' = "remove"
  /\ dragEnded' = FALSE
  /\ elapsed' = 0
  /\ removePending' = 0
  /\ extCalls' = extCalls \cup TeardownCalls
  /\ UNCHANGED <<iter, uncaught, recovery, setCalls, boundsFailed, mounted, toolbarRect, inner, setVars, recVars, muteVars>>

NextPersist ==
  \/ \E off \in HandleOffsets : handleMouseDown(off)
  \/ SyncRefs
  \/ \E p \in Pointers : handleMouseMove(p.x, p.y)
  \/ handleMouseUp
  \/ FireBoundsTimer
  \/ \E name \in {"initial", "dragEnd"} : FireTimer(name)
  \/ WindowRecreate

SpecPersist == InitPersist /\ [][NextPersist]_vars

\* C30: every position reached by dragging is in the store, and a window
\* re-created on the same screen starts at the position stored last.
C30_PositionRoundTrip ==
  [][/\ savedPosition' = <<position'>>
     /\ WindowRecreate => position' = savedPosition[1]]_vars

(* nothing of channel ch is under way: no toggle, no broadcast payload, no *)
(* mute notification                                                        *)
Settled(ch) ==
  /\ Quiescent(ch)
  /\ \A k \in 1..Len(muteEvents) : muteEvents[k].type # ch

\* C35: after any sequence of mic (or speaker) toggles issued from the two
\* windows, once every mute-set call has settled and every broadcast and
\* notification has been delivered, each window's flag equals the value
\* stored last in the listener by setMicMuted (or setSpeakerMuted).
C35_FlagsFollowListener ==
  \A ch \in Channels :
    (toggleCount > 0 /\ Settled(ch))
       => \A w \in Windows : muted[w][ch] = listenerMuted[ch]

(* a step of the toggle of channel ch or of the handling of a mute event   *)
(* of channel ch                                                            *)
ChannelStep(ch) ==
  \/ \E w \in Windows : toggleClick(w, ch)
  \/ \E i \in 1..Len(muteCalls) :
        muteCalls[i].ch = ch /\ (toggleResolve(i) \/ toggleReject(i))
  \/ \E w \in Windows : BroadcastDeliver(w, ch)
  \/ SessionMuteDeliver /\ Head(muteEvents).type = ch

\* C36: microphone and speaker mute are independent: toggleMic and an
\* incoming mic mute event never change a speaker flag, toggleSpeaker and an
\* incoming speaker mute event never change a mic flag, and neither changes
\* the cached recording status or Loading.
C36_ChannelsIndependent ==
  [][\A ch \in Channels :
       ChannelStep(ch) =>
          /\ \A w \in Windows, other \in Channels \ {ch} :
                muted'[w][other] = muted[w][other]
          /\ recordingStatus' = recordingStatus
          /\ recordingLoading' = recordingLoading]_vars

\* the control window handled a mic notification and its speaker flag differs
C36_Witness ==
  /\ iter = "p008"
  /\ lastApplied["control"].ch = "mic"
  /\ muted["control"]["mic"]
  /\ ~muted["control"]["speaker"]
  /\ listenerMuted["mic"]

----------------------------------------------------------------------------
(* SpecDetect: part_008 with the position checks scheduled at mount (the   *)
(* three timers of the detection effect and the 50 ms timer of the ref     *)
(* callback of the first render), under drag, recovery and teardown.  The  *)
(* ref callback runs again at every later render; those later checks are   *)
(* not modelled.                                                           *)

DetectThreshold == 10

\* the timeouts pending after the first render
MountTimers == {"initial", "refMount"} \cup DetectTimers

\* rendered top-left minus tracked position, as getBoundingClientRect()
\* reports it (the surface moves with a 0.1 s transition when not dragged)
RenderedOffsets == {Pt(0, 0), Pt(5, 5), Pt(50, 0)}

Deadline(name) ==
  CASE name = "refMount" -> 50
    [] name = "detect100" -> 100
    [] name = "detect200" -> 200
    [] name = "initial" -> 200
    [] name = "detect500" -> 500

(* no timeout set at mount with an earlier deadline is still pending       *)
Due(name) ==
  \A t \in pendingTimers \cap MountTimers : Deadline(t) >= Deadline(name)

(* the comparison detectActualPosition and the ref callback make between   *)
(* the rendered top-left and the position of their closure                 *)
Desynced(actual, tracked) ==
  \/ Abs(actual.x - tracked.x) > DetectThreshold
  \/ Abs(actual.y - tracked.y) > DetectThreshold

InitDetect == InitMounted(MountTimers) /\ iter = "p008"

(* one of the timers of the detection effect fires: detectActualPosition   *)
(* of the first render; off is where the surface is rendered relative to   *)
(* the current position                                                    *)
detectActualPosition(name, off) ==
  /\ name \in pendingTimers \cap DetectTimers
  /\ Due(name)
  /\ pendingTimers' = pendingTimers \ {name}
  /\ LET actualPosition == Pt(position.x + off.x, position.y + off.y)
     IN IF ~mounted
        THEN UNCHANGED <<position, savedPosition, boundsTimer, overlay, lastCmd,
                         setCalls>>
        ELSE IF Desynced(actualPosition, mountClosure.pos)
        THEN /\ position' = actualPosition
             /\ PositionEffect(position')
             /\ UNCHANGED <<overlay, lastCmd, setCalls>>
        ELSE /\ updateOverlayBounds(mountClosure.pos, mountClosure.settings)
             /\ UNCHANGED <<position, savedPosition, boundsTimer>>
  /\ UNCHANGED <<iter, errVars, recovery, boundsFailed, mounted, elapsed, removePending, setVars,
                 recVars, muteVars, dragEnded, isDragging, dragOffset,
                 isDraggingRef, dragOffsetRef, showSettings, toolbarRect, inner,
                 settingsTimer, updateScheduledRef, mountClosure>>

(* the 50 ms timer set by the ref callback of the first render fires; it   *)
(* is not cleared at unmount, where setPosition has no effect              *)
refCallbackTimer(off) ==
  /\ "refMount" \in pendingTimers
  /\ Due("refMount")
  /\ pendingTimers' = pendingTimers \ {"refMount"}
  /\ LET actualPosition == Pt(position.x + off.x, position.y + off.y)
     IN IF mounted /\ Desynced(actualPosition, mountClosure.pos)
        THEN /\ position' = actualPosition
             /\ PositionEffect(position')
        ELSE UNCHANGED <<position, savedPosition, boundsTimer>>
  /\ UNCHANGED <<iter, errVars, ovVars, setVars, recVars, muteVars, dragEnded, isDragging,
                 dragOffset, isDraggingRef, dragOffsetRef, showSettings,
                 toolbarRect, inner, settingsTimer, updateScheduledRef,
                 mountClosure, overlay>>

NextDetect ==
  \/ \E name \in DetectTimers, off \in RenderedOffsets :
       detectActualPosition(name, off)
  \/ \E off \in RenderedOffsets : refCallbackTimer(off)
  \/ \E off \in HandleOffsets : handleMouseDown(off)
  \/ SyncRefs
  \/ \E p \in InteractPointers : handleMouseMove(p.x, p.y)
  \/ handleMouseUp
  \/ FireBoundsTimer
  \/ \E name \in {"initial", "dragEnd", "reset"} : FireTimer(name)
  \/ Tick
  \/ handleWindowFocus
  \/ RemoveResolve
  \/ RemoveReject
  \/ Unmount

SpecDetect == InitDetect /\ [][NextDetect]_vars

(* a step in which one of the position checks scheduled at mount runs      *)
DetectRuns(off) ==
  \/ \E name \in DetectTimers : detectActualPosition(name, off)
  \/ refCallbackTimer(off)

\* C29: when a position check scheduled at mount runs, the position is set
\* to the rendered top-left if that differs from the position current at
\* that time by more than 10 px on the x or on the y axis, and is left
\* unchanged if both differences are at most 10 px.
C29_DesyncDetection ==
  [][\A off \in RenderedOffsets :
       (DetectRuns(off) /\ mounted) =>
          IF Abs(off.x) > 10 \/ Abs(off.y) > 10
          THEN position' = Pt(position.x + off.x, position.y + off.y)
          ELSE position' = position]_vars

\* C23: once the component is torn down no step issues setFakeWindowBounds:
\* the timers and promise continuations still pending at teardown are
\* cancelled or run without publishing.
C23_NoPublishAfterTeardown ==
  [][~mounted =>
       /\ overlay' = overlay /\ lastCmd' = lastCmd /\ setCalls' <= setCalls
       /\ position' = position /\ boundsTimer' = <<>>
       /\ pendingTimers' \cap DetectTimers = {}]_vars

C23_Witness ==
  /\ ~mounted
  /\ {"dragEnd", "reset"} \subseteq pendingTimers
  /\ lastCmd = "remove"

----------------------------------------------------------------------------
(* SpecFirst: the earliest iteration of the component                      *)
(* (apps/desktop/src/routes/app.control.tsx; part_005 has the same drag    *)
(* effect).  The listeners live in an effect whose dependencies are         *)
(* [isDragging, dragOffset]: each render that changes one of them runs the  *)
(* effect's cleanup and then the effect again.  The position is not         *)
(* clamped and there is no popover.                                         *)

\* removeFakeWindow calls in flight
MaxPendingRemoves == 2

\* setTimeout(updateOverlayBounds, 0) timers pending
MaxZeroTimers == 1

InitialPositionFirst(win) == Pt((win.w - FallbackToolbarWidth) \div 2, win.h - 80)

InitFirst ==
  /\ iter = "first"
  /\ RecIdle
  /\ MuteIdle
  /\ SetIdle
  /\ inner \in Screens
  /\ toolbarRect \in ToolbarSizes
  /\ position = InitialPositionFirst(inner)
  /\ savedPosition = <<>>
  /\ isDragging = FALSE
  /\ dragOffset = Pt(0, 0)
  /\ isDraggingRef = FALSE
  /\ dragOffsetRef = Pt(0, 0)
  /\ showSettings = FALSE
  /\ mountClosure = Closure(position, FALSE)
  /\ boundsTimer = <<>>
  /\ settingsTimer = <<>>
  /\ pendingTimers = {"initial"}
  /\ updateScheduledRef = FALSE
  /\ overlay = <<OverlayRect(position, FALSE)>>
  /\ dragEnded = FALSE
  /\ mounted = TRUE
  /\ elapsed = 0
  /\ lastCmd = "set"
  /\ removePending = 0
  /\ setCalls = 1
  /\ boundsFailed = FALSE
  /\ recovery = NoRecovery
  /\ extCalls = {}
  /\ uncaught = {}

(* the drag effect is run again after a render that changed isDragging or  *)
(* dragOffset: its cleanup issues removeFakeWindow("control"), its body     *)
(* calls the updateOverlayBounds of the new render                          *)
dragEffectRerun(pos) ==
  /\ removePending < MaxPendingRemoves
  /\ removePending' = removePending + 1
  /\ updateOverlayBounds(pos, FALSE)

(* handleMouseDown: setIsDragging(true), setDragOffset({...}); the new      *)
(* dragOffset object differs from the old one, so the drag effect reruns    *)
handleMouseDownFirst(off) ==
  /\ mounted
  /\ isDragging' = TRUE
  /\ dragOffset' = off
  /\ dragEffectRerun(position)
  /\ UNCHANGED <<iter, errVars, recovery, boundsFailed, mounted, elapsed, setVars, recVars,
                 muteVars, dragEnded, position, isDraggingRef, dragOffsetRef,
                 showSettings, toolbarRect, inner, savedPosition, boundsTimer,
                 settingsTimer, pendingTimers, updateScheduledRef, mountClosure>>

(* window "mousemove" listener of the current drag effect: setPosition with *)
(* the unclamped pointer position, a 0 ms timer for the updateOverlayBounds *)
(* of the render that registered the listener; the position effect of the   *)
(* next render publishes the new position                                   *)
handleMouseMoveFirst(clientX, clientY) ==
  /\ mounted
  /\ isDragging
  /\ Len(boundsTimer) < MaxZeroTimers
  /\ position' = Pt(clientX - dragOffset.x, clientY - dragOffset.y)
  /\ boundsTimer' = Append(boundsTimer, Closure(position, FALSE))
  /\ updateOverlayBounds(position', FALSE)
  /\ UNCHANGED <<iter, errVars, recovery, boundsFailed, mounted, elapsed, removePending,
                 setVars, recVars, muteVars, dragEnded, isDragging, dragOffset,
                 isDraggingRef, dragOffsetRef, showSettings, toolbarRect, inner,
                 savedPosition, settingsTimer, pendingTimers, updateScheduledRef,
                 mountClosure>>

(* window "mouseup" listener: setIsDragging(false); when that changes the   *)
(* state the drag effect reruns                                             *)
handleMouseUpFirst ==
  /\ mounted
  /\ isDragging' = FALSE
  /\ IF isDragging
     THEN dragEffectRerun(position)
     ELSE UNCHANGED <<removePending, overlay, lastCmd, setCalls>>
  /\ UNCHANGED <<iter, errVars, recovery, boundsFailed, mounted, elapsed, setVars, recVars,
                 muteVars, dragEnded, position, dragOffset, isDraggingRef,
                 dragOffsetRef, showSettings, toolbarRect, inner, savedPosition,
                 boundsTimer, settingsTimer, pendingTimers, updateScheduledRef,
                 mountClosure>>

(* captureScreenshot / toggleRecording / openSettings:                      *)
(* setTimeout(updateOverlayBounds, 0)                                       *)
buttonClickFirst ==
  /\ mounted
  /\ Len(boundsTimer) < MaxZeroTimers
  /\ boundsTimer' = Append(boundsTimer, Closure(position, FALSE))
  /\ UNCHANGED <<iter, errVars, ovVars, setVars, recVars, muteVars, dragEnded, position,
                 isDragging, dragOffset, isDraggingRef, dragOffsetRef, showSettings,
                 toolbarRect, inner, savedPosition, settingsTimer, pendingTimers,
                 updateScheduledRef, mountClosure, overlay>>

(* a removeFakeWindow call settles; nothing waits for it                    *)
RemoveSettleFirst ==
  /\ removePending > 0
  /\ removePending' = removePending - 1
  /\ UNCHANGED <<iter, errVars, recovery, setCalls, boundsFailed, mounted, elapsed, lastCmd,
                 setVars, recVars, muteVars, dragVars>>

(* unmount: the cleanup of the drag effect issues removeFakeWindow, the     *)
(* cleanup of the mount effect clears the 100 ms timer                      *)
UnmountFirst ==
  /\ mounted
  /\ removePending < MaxPendingRemoves
  /\ mounted' = FALSE
  /\ removePending' = removePending + 1
  /\ lastCmd' = "remove"
  /\ pendingTimers' = {}
  /\ UNCHANGED <<iter, errVars, recovery, setCalls, boundsFailed, elapsed, setVars, recVars,
                 muteVars, dragEnded, position, isDragging, dragOffset, isDraggingRef,
                 dragOffsetRef, showSettings, toolbarRect, inner, savedPosition,
                 boundsTimer, settingsTimer, updateScheduledRef, mountClosure,
                 overlay>>

NextFirst ==
  \/ \E off \in HandleOffsets : handleMouseDownFirst(off)
  \/ \E p \in Pointers : handleMouseMoveFirst(p.x, p.y)
  \/ handleMouseUpFirst
  \/ buttonClickFirst
  \/ FireBoundsTimer
  \/ FireTimer("initial")
  \/ SetBoundsResolve
  \/ SetBoundsReject
  \/ RemoveSettleFirst
  \/ UnmountFirst

SpecFirst == InitFirst /\ [][NextFirst]_vars

\* C40: in the earliest iteration no removeFakeWindow("control") is issued
\* between mount and unmount: starting or ending a drag does not unregister
\* the overlay.
C40_NoRemoveWhileMounted ==
  [][mounted' => removePending' <= removePending]_vars

====
